---- MODULE Spec2Model ----
(***************************************************************************)
(* The classroom polling app of src/polling/app.py, the IRR page of        *)
(* src/pages/4_internal_rate_of_return.py and the perpetuity page of       *)
(* src/pages/3_perpetuity_formula.py.                                      *)
(*                                                                          *)
(* The store is the process-wide poll map, poll-group map and voter set.    *)
(* Each store function is an operator from the store and the call's         *)
(* arguments to the store afterwards and the value returned.                *)
(*                                                                          *)
(*   Spec       the store functions, each call one step                     *)
(*   SpecRoute  main: the view chosen for a request's query parameters      *)
(*   SpecApp    the app: each step one run of the script for a session      *)
(*   SpecGroup  the sessions voting on a prepared, open group               *)
(*   SpecLinks  the links of the dashboard, shown and followed              *)
(*   SpecForm   create_poll_form over every filling of its fields           *)
(*   SpecRace   cast_vote with its statements interleaved between threads   *)
(*   SpecIrr    find_irr and the display of its result                      *)
(*   SpecPerpetuity  the perpetuity page: the cumulative present value      *)
(*   SpecRefresh  the sessions on their links, re-rendered by st.rerun()    *)
(***************************************************************************)
EXTENDS Integers, Sequences, FiniteSets, TLC

VARIABLES
    polls,      \* get_poll_store():       poll id  -> Poll
    groups,     \* get_poll_group_store(): group id -> PollGroup
    voters,     \* get_voter_store():      set of "{session_id}_{poll_id}" keys
    last,       \* the call made by the last step, its arguments and its result
    accepted,   \* history: (session, poll id) -> number of cast_vote calls
                \* accepted for the pair since the store was last empty
    authenticated,  \* st.session_state.authenticated of each session
    threads,    \* the cast_vote call each thread is in and its position in it;
                \* in SpecRefresh the page each session's script thread rendered
    calc        \* a calculation of a page or helper: its inputs and output

\* The variables outside the store; a specification that does not use one
\* of them leaves it as it starts.
others == <<authenticated, threads, calc>>

vars == <<polls, groups, voters, last, accepted, authenticated, threads, calc>>

-----------------------------------------------------------------------------
(* Bounds and input sets *)

\* The store holds at most MaxEntries polls, groups and voter keys together.
MaxEntries == 3

\* Outcomes of str(uuid.uuid4()).  The first two agree on their first eight
\* characters and differ afterwards.
Uuid4Strings ==
    { "3f2a9c1e-5b7d-4e1a-9c3f-0a1b2c3d4e5f",
      "3f2a9c1e-88aa-4c0d-b1e2-77f6a5b4c3d2",
      "7b0d4e55-1c2d-4f3a-8e9b-6a5f4e3d2c1b" }

\* Session ids of the browsing clients, each a str(uuid.uuid4()).
SessionIds ==
    { "c41e88a0-6d2f-4b8e-a7c1-5e9d3f2b1a00",
      "d9e0f1a2-3b4c-4d5e-8f60-718293a4b5c6" }

\* (question, options) arguments of create_poll.  The store does not validate
\* them: the second list repeats a label.
PollInputs ==
    { <<"Q1", <<"A", "B">> >>,
      <<"Q2", <<"C", "A", "C">> >> }

\* option arguments of cast_vote; each is a key of some polls and not of others.
OptionArgs == {"A", "B", "C"}

GroupNames == {"Exercise 1"}

-----------------------------------------------------------------------------
(* Values *)

\* Python's None, as returned by dict.get for an absent key.
None == [none |-> TRUE]

\* A Python bool as a returned value.  Returned values are records, so that
\* any two of them can be compared.
Bool(b) == [bool |-> b]

\* The number of characters of the uuid kept as an id.
IdLen == 8

\* str(uuid.uuid4())[:8]
ShortId(u) == SubSeq(u, 1, IdLen)

\* The ids create_poll and create_poll_group can generate; also the id
\* arguments of the other calls (an id not in the map is an absent id).
Ids == {ShortId(u) : u \in Uuid4Strings}

\* poll_ids arguments of create_poll_group: not validated by the store.
MemberLists == {<<p>> : p \in Ids} \cup {<<p, q>> : p \in Ids, q \in Ids}

Range(seq) == {seq[i] : i \in DOMAIN seq}

\* Poll with the default of is_open wrong: a new poll starts open.
Poll_StartsOpen(id, question, options) ==
    [id |-> id, question |-> question, options |-> options,
     votes |-> [opt \in Range(options) |-> 0],
     is_open |-> TRUE]

\* Poll.__post_init__: votes is the default empty dict, so it is filled in.
Poll(id, question, options) ==
    [id |-> id, question |-> question, options |-> options,
     votes |-> [opt \in Range(options) |-> 0],
     is_open |-> FALSE]

PollGroup(id, name, poll_ids) ==
    [id |-> id, name |-> name, poll_ids |-> poll_ids, is_open |-> FALSE]

\* f"{session_id}_{poll_id}"
VoterKey(session_id, poll_id) == session_id \o "_" \o poll_id

-----------------------------------------------------------------------------
(* Store functions: each maps the store and the arguments to the store     *)
(* after the call (fields polls, groups, voters) and the value returned    *)
(* (field result).                                                         *)

get_poll(ps, poll_id) == IF poll_id \in DOMAIN ps THEN ps[poll_id] ELSE None

get_poll_group(gs, group_id) == IF group_id \in DOMAIN gs THEN gs[group_id] ELSE None

\* has_voted that finds no voter key.
has_voted_Never(vs, poll_id, session_id) == FALSE

has_voted(vs, poll_id, session_id) == VoterKey(session_id, poll_id) \in vs

\* dict[key] = value
Put(map, key, value) ==
    [k \in DOMAIN map \cup {key} |-> IF k = key THEN value ELSE map[k]]

\* uuid is the outcome of uuid.uuid4() in the call.
create_poll(ps, gs, vs, uuid, question, options) ==
    LET poll_id == ShortId(uuid)
        poll == Poll(poll_id, question, options)
    IN  [polls |-> Put(ps, poll_id, poll), groups |-> gs, voters |-> vs,
         result |-> poll]

\* cast_vote that counts the vote and forgets to add the voter key.
cast_vote_NoVoterKey(ps, gs, vs, poll_id, option, session_id) ==
    LET voter_key == VoterKey(session_id, poll_id)
        poll == get_poll(ps, poll_id)
    IN  IF voter_key \in vs
        THEN [polls |-> ps, groups |-> gs, voters |-> vs, result |-> Bool(FALSE)]
        ELSE IF poll # None /\ option \in DOMAIN poll.votes
        THEN [polls |-> [ps EXCEPT ![poll_id].votes[option] = @ + 1],
              groups |-> gs, voters |-> vs, result |-> Bool(TRUE)]
        ELSE [polls |-> ps, groups |-> gs, voters |-> vs, result |-> Bool(FALSE)]

\* cast_vote that adds the voter key before it validates the poll and option.
cast_vote_KeyBeforeValidation(ps, gs, vs, poll_id, option, session_id) ==
    LET voter_key == VoterKey(session_id, poll_id)
        poll == get_poll(ps, poll_id)
    IN  IF voter_key \in vs
        THEN [polls |-> ps, groups |-> gs, voters |-> vs, result |-> Bool(FALSE)]
        ELSE IF poll # None /\ option \in DOMAIN poll.votes
        THEN [polls |-> [ps EXCEPT ![poll_id].votes[option] = @ + 1],
              groups |-> gs,
              voters |-> vs \cup {voter_key},
              result |-> Bool(TRUE)]
        ELSE [polls |-> ps, groups |-> gs, voters |-> vs \cup {voter_key},
              result |-> Bool(FALSE)]

\* cast_vote that does not check the option: votes[option] = votes.get(option, 0) + 1.
cast_vote_AnyOption(ps, gs, vs, poll_id, option, session_id) ==
    LET voter_key == VoterKey(session_id, poll_id)
        poll == get_poll(ps, poll_id)
    IN  IF voter_key \in vs
        THEN [polls |-> ps, groups |-> gs, voters |-> vs, result |-> Bool(FALSE)]
        ELSE IF poll # None
        THEN [polls |-> [ps EXCEPT ![poll_id].votes =
                            Put(@, option,
                                IF option \in DOMAIN @ THEN @[option] + 1 ELSE 1)],
              groups |-> gs,
              voters |-> vs \cup {voter_key},
              result |-> Bool(TRUE)]
        ELSE [polls |-> ps, groups |-> gs, voters |-> vs, result |-> Bool(FALSE)]

cast_vote(ps, gs, vs, poll_id, option, session_id) ==
    LET voter_key == VoterKey(session_id, poll_id)
        poll == get_poll(ps, poll_id)
    IN  IF voter_key \in vs
        THEN [polls |-> ps, groups |-> gs, voters |-> vs, result |-> Bool(FALSE)]
        ELSE IF poll # None /\ option \in DOMAIN poll.votes
        THEN [polls |-> [ps EXCEPT ![poll_id].votes[option] = @ + 1],
              groups |-> gs,
              voters |-> vs \cup {voter_key},
              result |-> Bool(TRUE)]
        ELSE [polls |-> ps, groups |-> gs, voters |-> vs, result |-> Bool(FALSE)]

\* clear_all_polls that forgets the voter set.
clear_all_polls_KeepsVoters(ps, gs, vs) ==
    [polls |-> <<>>, groups |-> <<>>, voters |-> vs, result |-> None]

clear_all_polls(ps, gs, vs) ==
    [polls |-> <<>>, groups |-> <<>>, voters |-> {}, result |-> None]

\* toggle_poll that returns the state the poll had before the call.
toggle_poll_ReturnsOldState(ps, gs, vs, poll_id) ==
    LET poll == get_poll(ps, poll_id)
    IN  IF poll # None
        THEN [polls |-> [ps EXCEPT ![poll_id].is_open = ~@],
              groups |-> gs, voters |-> vs,
              result |-> Bool(poll.is_open)]
        ELSE [polls |-> ps, groups |-> gs, voters |-> vs, result |-> Bool(FALSE)]

toggle_poll(ps, gs, vs, poll_id) ==
    LET poll == get_poll(ps, poll_id)
    IN  IF poll # None
        THEN [polls |-> [ps EXCEPT ![poll_id].is_open = ~@],
              groups |-> gs, voters |-> vs,
              result |-> Bool(~poll.is_open)]
        ELSE [polls |-> ps, groups |-> gs, voters |-> vs, result |-> Bool(FALSE)]

\* create_poll_group that replaces the group map by one holding the new group.
create_poll_group_ReplacesMap(ps, gs, vs, uuid, name, poll_ids) ==
    LET group_id == ShortId(uuid)
        group == PollGroup(group_id, name, poll_ids)
    IN  [polls |-> ps, groups |-> Put(<<>>, group_id, group), voters |-> vs,
         result |-> group]

create_poll_group(ps, gs, vs, uuid, name, poll_ids) ==
    LET group_id == ShortId(uuid)
        group == PollGroup(group_id, name, poll_ids)
    IN  [polls |-> ps, groups |-> Put(gs, group_id, group), voters |-> vs,
         result |-> group]

\* toggle_poll_group that toggles each member poll instead of setting it to
\* the group's new value.
toggle_poll_group_TogglesMembers(ps, gs, vs, group_id) ==
    LET group == get_poll_group(gs, group_id)
    IN  IF group # None
        THEN LET is_open == ~group.is_open
             IN  [polls |-> [p \in DOMAIN ps |->
                                IF p \in Range(group.poll_ids)
                                THEN [ps[p] EXCEPT !.is_open = ~@]
                                ELSE ps[p]],
                  groups |-> [gs EXCEPT ![group_id].is_open = is_open],
                  voters |-> vs,
                  result |-> Bool(is_open)]
        ELSE [polls |-> ps, groups |-> gs, voters |-> vs, result |-> Bool(FALSE)]

toggle_poll_group(ps, gs, vs, group_id) ==
    LET group == get_poll_group(gs, group_id)
    IN  IF group # None
        THEN LET is_open == ~group.is_open
             IN  [polls |-> [p \in DOMAIN ps |->
                                IF p \in Range(group.poll_ids)
                                THEN [ps[p] EXCEPT !.is_open = is_open]
                                ELSE ps[p]],
                  groups |-> [gs EXCEPT ![group_id].is_open = is_open],
                  voters |-> vs,
                  result |-> Bool(is_open)]
        ELSE [polls |-> ps, groups |-> gs, voters |-> vs, result |-> Bool(FALSE)]

clear_all_poll_groups(ps, gs, vs) ==
    [polls |-> ps, groups |-> <<>>, voters |-> vs, result |-> None]

-----------------------------------------------------------------------------
(* The state machine: one action per store call *)

StoreSize(ps, gs, vs) ==
    Cardinality(DOMAIN ps) + Cardinality(DOMAIN gs) + Cardinality(vs)

Pairs == SessionIds \X Ids

\* The step makes call op with arguments args, whose outcome is r.
Call(op, args, r) ==
    /\ StoreSize(r.polls, r.groups, r.voters) <= MaxEntries
    /\ polls' = r.polls
    /\ groups' = r.groups
    /\ voters' = r.voters
    /\ last' = [op |-> op, args |-> args, result |-> r.result]
    /\ UNCHANGED others

\* No session is authenticated, no thread is in a call, nothing is calculated.
InitOthers ==
    /\ authenticated = [session_id \in SessionIds |-> FALSE]
    /\ threads = <<>>
    /\ calc = None

InitStore ==
    /\ polls = <<>>
    /\ groups = <<>>
    /\ voters = {}
    /\ last = [op |-> "init", args |-> <<>>, result |-> None]
    /\ accepted = [pair \in Pairs |-> 0]

Init ==
    /\ InitStore
    /\ InitOthers

CreatePoll ==
    \E uuid \in Uuid4Strings, input \in PollInputs :
        /\ Call("create_poll", <<input[1], input[2]>>,
                create_poll(polls, groups, voters, uuid, input[1], input[2]))
        /\ UNCHANGED accepted

CastVote ==
    \E poll_id \in Ids, option \in OptionArgs, session_id \in SessionIds :
        LET r == cast_vote(polls, groups, voters, poll_id, option, session_id)
        IN  /\ Call("cast_vote", <<poll_id, option, session_id>>, r)
            /\ accepted' = IF r.result = Bool(TRUE)
                           THEN [accepted EXCEPT ![<<session_id, poll_id>>] = @ + 1]
                           ELSE accepted

TogglePoll ==
    \E poll_id \in Ids :
        /\ Call("toggle_poll", <<poll_id>>,
                toggle_poll(polls, groups, voters, poll_id))
        /\ UNCHANGED accepted

CreatePollGroup ==
    \E uuid \in Uuid4Strings, name \in GroupNames, poll_ids \in MemberLists :
        /\ Call("create_poll_group", <<name, poll_ids>>,
                create_poll_group(polls, groups, voters, uuid, name, poll_ids))
        /\ UNCHANGED accepted

TogglePollGroup ==
    \E group_id \in Ids :
        /\ Call("toggle_poll_group", <<group_id>>,
                toggle_poll_group(polls, groups, voters, group_id))
        /\ UNCHANGED accepted

ClearAllPolls ==
    /\ Call("clear_all_polls", <<>>, clear_all_polls(polls, groups, voters))
    /\ accepted' = [pair \in Pairs |-> 0]

ClearAllPollGroups ==
    /\ Call("clear_all_poll_groups", <<>>,
            clear_all_poll_groups(polls, groups, voters))
    /\ UNCHANGED accepted

Next ==
    \/ CreatePoll
    \/ CastVote
    \/ TogglePoll
    \/ CreatePollGroup
    \/ TogglePollGroup
    \/ ClearAllPolls
    \/ ClearAllPollGroups

Spec == Init /\ [][Next]_vars

-----------------------------------------------------------------------------
(* Routing: main chooses the view of a request from its query parameters *)

ParamKeys == {"poll", "group", "results"}

\* Values of a query parameter in a request: an id for poll and group, a
\* flag for results, and the empty value of "?results=" or "?results".
ParamValues(key) ==
    IF key = "results" THEN {"1", "0", ""} ELSE Ids \cup {""}

\* st.query_params.to_dict(): the parameters present, each with its value.
QueryParams ==
    UNION {{params \in [keys -> Ids \cup {"1", "0", ""}] :
                \A key \in keys : params[key] \in ParamValues(key)} :
           keys \in SUBSET ParamKeys}

\* params.get(key) is truthy: the key is present and its value is not "".
Truthy(params, key) == key \in DOMAIN params /\ params[key] # ""

\* The view main renders and the id it passes; the teacher dashboard is
\* behind check_password.
main(params) ==
    IF Truthy(params, "group") /\ Truthy(params, "results")
    THEN [view |-> "render_group_results", id |-> params["group"]]
    ELSE IF Truthy(params, "group")
    THEN [view |-> "render_group_voting", id |-> params["group"]]
    ELSE IF Truthy(params, "poll") /\ Truthy(params, "results")
    THEN [view |-> "render_results_display", id |-> params["poll"]]
    ELSE IF Truthy(params, "poll")
    THEN [view |-> "render_student_voting", id |-> params["poll"]]
    ELSE [view |-> "render_teacher_dashboard", id |-> ""]

\* The store, the sessions and the threads stay as they start.
IdleApp ==
    /\ InitStore
    /\ authenticated = [session_id \in SessionIds |-> FALSE]
    /\ threads = <<>>

InitRoute ==
    /\ IdleApp
    /\ calc \in {[fn |-> "main", params |-> params, out |-> None] :
                    params \in QueryParams}

\* One request: main is run on the request's query parameters.
RunMain ==
    /\ calc.out = None
    /\ calc' = [calc EXCEPT !.out = main(calc.params)]
    /\ UNCHANGED <<polls, groups, voters, last, accepted, authenticated, threads>>

NextRoute == RunMain

SpecRoute == InitRoute /\ [][NextRoute]_vars

-----------------------------------------------------------------------------
(* Strings *)

\* s without its leading characters c.
RECURSIVE LStripChar(_, _)
LStripChar(s, c) ==
    IF Len(s) > 0 /\ SubSeq(s, 1, 1) = c
    THEN LStripChar(SubSeq(s, 2, Len(s)), c)
    ELSE s

\* s without its trailing characters c: s.rstrip(c).
RECURSIVE RStripChar(_, _)
RStripChar(s, c) ==
    IF Len(s) > 0 /\ SubSeq(s, Len(s), Len(s)) = c
    THEN RStripChar(SubSeq(s, 1, Len(s) - 1), c)
    ELSE s

\* s.strip(), for strings whose only whitespace is the space.
strip(s) == RStripChar(LStripChar(s, " "), " ")

-----------------------------------------------------------------------------
(* The pages of the polling app: what one run of the script renders and    *)
(* does for a session.                                                      *)

TEACHER_PASSWORD == "teacher123"

\* Texts typed into the password field.
PasswordInputs == {TEACHER_PASSWORD, "teacher", ""}

\* Who types what into the password field: the teacher's session knows the
\* password and may mistype it, the other session is a student's and guesses.
LoginInputs ==
    {login \in SessionIds \X PasswordInputs :
        login[2] = TEACHER_PASSWORD => login[1] = "c41e88a0-6d2f-4b8e-a7c1-5e9d3f2b1a00"}

\* check_password that lets every session through to the dashboard.
check_password_Ungated(flag, login) ==
    [authenticated |-> flag, returns |-> TRUE, message |-> ""]

\* check_password that accepts whatever is submitted.
check_password_AnyPassword(flag, login) ==
    IF flag
    THEN [authenticated |-> TRUE, returns |-> TRUE, message |-> ""]
    ELSE IF login # None
    THEN [authenticated |-> TRUE, returns |-> FALSE, message |-> "rerun"]
    ELSE [authenticated |-> FALSE, returns |-> FALSE, message |-> ""]

\* check_password for a session whose authenticated flag is flag.  login is
\* None when the Login button was not clicked and [password |-> text] when it
\* was.  The outcome: the flag afterwards, the value returned (st.rerun()
\* ends the run without the dashboard, as a return of False does) and the
\* message.
check_password(flag, login) ==
    IF flag
    THEN [authenticated |-> TRUE, returns |-> TRUE, message |-> ""]
    ELSE IF login # None /\ login.password = TEACHER_PASSWORD
    THEN [authenticated |-> TRUE, returns |-> FALSE, message |-> "rerun"]
    ELSE IF login # None
    THEN [authenticated |-> FALSE, returns |-> FALSE,
          message |-> "Incorrect password"]
    ELSE [authenticated |-> FALSE, returns |-> FALSE, message |-> ""]

\* The labels of the six option fields of create_poll_form.
OptionLabels == <<"A", "B", "C", "D", "E", "F">>

\* The options collected from the fields i, i+1, ...: f"{label}. {value.strip()}"
\* for each field whose value is not blank.
RECURSIVE CollectOptions(_, _)
CollectOptions(fields, i) ==
    IF i > Len(fields)
    THEN <<>>
    ELSE (IF strip(fields[i]) # ""
          THEN <<OptionLabels[i] \o ". " \o strip(fields[i])>>
          ELSE <<>>) \o CollectOptions(fields, i + 1)

\* A message shown in place of an action.
Error(message) == [error |-> message]

\* create_poll_form that wants one option only.
create_poll_form_OneOption(ps, gs, vs, uuid, question, fields) ==
    LET options == CollectOptions(fields, 1)
    IN  IF strip(question) = ""
        THEN [polls |-> ps, groups |-> gs, voters |-> vs,
              result |-> Error("Please enter a question.")]
        ELSE IF Len(options) < 1
        THEN [polls |-> ps, groups |-> gs, voters |-> vs,
              result |-> Error("Please provide at least 2 options.")]
        ELSE create_poll(ps, gs, vs, uuid, strip(question), options)

\* The submitted create_poll_form of the teacher dashboard.
create_poll_form(ps, gs, vs, uuid, question, fields) ==
    LET options == CollectOptions(fields, 1)
    IN  IF strip(question) = ""
        THEN [polls |-> ps, groups |-> gs, voters |-> vs,
              result |-> Error("Please enter a question.")]
        ELSE IF Len(options) < 2
        THEN [polls |-> ps, groups |-> gs, voters |-> vs,
              result |-> Error("Please provide at least 2 options.")]
        ELSE create_poll(ps, gs, vs, uuid, strip(question), options)

\* The longest question shown whole in the group form.
LabelLen == 50

\* The entry of a poll in the multiselect of create_group_form.
PollLabel(poll) ==
    IF Len(poll.question) > LabelLen
    THEN SubSeq(poll.question, 1, LabelLen) \o "..."
    ELSE poll.question

\* The dicts poll_options can be: label -> poll id.  Polls with the same
\* label share one entry, which holds the id of the one inserted last; the
\* poll map here keeps no insertion order, so it is any of them.
PollOptions(ps) ==
    LET labels == {PollLabel(ps[pid]) : pid \in DOMAIN ps}
    IN  {f \in [labels -> DOMAIN ps] :
            \A label \in labels : PollLabel(ps[f[label]]) = label}

\* The selections the multiselect can hold: labels in the order chosen, none
\* of them twice.
Selections(labels) ==
    {<<>>} \cup {<<a>> : a \in labels}
           \cup {sel \in labels \X labels : sel[1] # sel[2]}

\* create_group_form that takes a single selected poll.
create_group_form_OneMember(ps, gs, vs, uuid, group_name, poll_options, selected_polls) ==
    IF strip(group_name) = ""
    THEN [polls |-> ps, groups |-> gs, voters |-> vs,
          result |-> Error("Please enter a group name.")]
    ELSE IF Len(selected_polls) < 1
    THEN [polls |-> ps, groups |-> gs, voters |-> vs,
          result |-> Error("Please select at least 2 polls.")]
    ELSE create_poll_group(ps, gs, vs, uuid, strip(group_name),
             [i \in DOMAIN selected_polls |-> poll_options[selected_polls[i]]])

\* The submitted create_group_form of the teacher dashboard.
create_group_form(ps, gs, vs, uuid, group_name, poll_options, selected_polls) ==
    IF strip(group_name) = ""
    THEN [polls |-> ps, groups |-> gs, voters |-> vs,
          result |-> Error("Please enter a group name.")]
    ELSE IF Len(selected_polls) < 2
    THEN [polls |-> ps, groups |-> gs, voters |-> vs,
          result |-> Error("Please select at least 2 polls.")]
    ELSE create_poll_group(ps, gs, vs, uuid, strip(group_name),
             [i \in DOMAIN selected_polls |-> poll_options[selected_polls[i]]])

\* What a voting or results page shows: the kind of page, the poll it is
\* about, the index of that poll in its group and the vote buttons offered.
Page(shown, poll_id, idx, buttons) ==
    [shown |-> shown, poll_id |-> poll_id, idx |-> idx, buttons |-> buttons]

render_student_voting(ps, vs, poll_id, session_id) ==
    LET poll == get_poll(ps, poll_id)
    IN  IF poll = None THEN Page("Poll not found", poll_id, None, {})
        ELSE IF ~poll.is_open THEN Page("Poll is not yet open", poll_id, None, {})
        ELSE IF has_voted(vs, poll_id, session_id)
        THEN Page("Thank you for voting", poll_id, None, {})
        ELSE Page("Vote", poll_id, None, Range(poll.options))

\* render_results_display that does not look whether the poll is there.
render_results_display_NoCheck(ps, poll_id) ==
    Page("Results", poll_id, None, {})

render_results_display(ps, poll_id) ==
    LET poll == get_poll(ps, poll_id)
    IN  IF poll = None THEN Page("Poll not found", poll_id, None, {})
        ELSE Page("Results", poll_id, None, {})

\* The loop of render_group_voting from index i on (i counts from 0, as in
\* the code): the first index whose poll the session has not voted on.
RECURSIVE current_poll_idx(_, _, _, _)
current_poll_idx(poll_ids, vs, session_id, i) ==
    IF i >= Len(poll_ids) THEN None
    ELSE IF ~has_voted(vs, poll_ids[i + 1], session_id) THEN [index |-> i]
    ELSE current_poll_idx(poll_ids, vs, session_id, i + 1)

\* render_group_voting that looks for the last unanswered question.
render_group_voting_LastUnanswered(ps, gs, vs, group_id, session_id) ==
    LET group == get_poll_group(gs, group_id)
        open == {i \in 0 .. Len(group.poll_ids) - 1 :
                    ~has_voted(vs, group.poll_ids[i + 1], session_id)}
        idx == CHOOSE i \in open : \A j \in open : j <= i
        current_poll_id == group.poll_ids[idx + 1]
        poll == get_poll(ps, current_poll_id)
    IN  IF group = None THEN Page("Poll group not found", "", None, {})
        ELSE IF ~group.is_open THEN Page("This poll is not yet open", "", None, {})
        ELSE IF open = {}
        THEN Page("You have completed all questions", "", None, {})
        ELSE IF poll = None THEN Page("Poll not found", current_poll_id, [index |-> idx], {})
        ELSE Page("Question", current_poll_id, [index |-> idx], Range(poll.options))

render_group_voting(ps, gs, vs, group_id, session_id) ==
    LET group == get_poll_group(gs, group_id)
        idx == current_poll_idx(group.poll_ids, vs, session_id, 0)
        current_poll_id == group.poll_ids[idx.index + 1]
        poll == get_poll(ps, current_poll_id)
    IN  IF group = None THEN Page("Poll group not found", "", None, {})
        ELSE IF ~group.is_open THEN Page("This poll is not yet open", "", None, {})
        ELSE IF idx = None
        THEN Page("You have completed all questions", "", None, {})
        ELSE IF poll = None THEN Page("Poll not found", current_poll_id, idx, {})
        ELSE Page("Question", current_poll_id, idx, Range(poll.options))

render_group_results(gs, group_id) ==
    LET group == get_poll_group(gs, group_id)
    IN  IF group = None THEN Page("Poll group not found", "", None, {})
        ELSE Page("Group results", "", None, {})

-----------------------------------------------------------------------------
(* The app as a state machine: each action is one run of the script for a  *)
(* session, from the request's query parameters and the widget that caused *)
(* the run to the end of the run.                                           *)

\* The store of the app holds at most MaxEntries polls and voter keys
\* together; its groups are bounded by the ids there are.
AppSize(ps, vs) == Cardinality(DOMAIN ps) + Cardinality(vs)

\* (question, option fields A..F) typed into create_poll_form.
FormInputs ==
    { <<" Q1 ", <<"4", " 5 ", "", "", "", "">> >>,
      <<"Q2", <<"", "4", " ", "", "", "6">> >>,
      <<" ", <<"4", "5", "", "", "", "">> >>,
      <<"Q3", <<"", "", "7", " ", "", "">> >> }

\* Names typed into create_group_form.
GroupNameInputs == {" Exercise 1 ", " "}

\* Outcomes of uuid.uuid4() in the create_poll_group calls of the dashboard.
GroupUuid4Strings == {"7b0d4e55-1c2d-4f3a-8e9b-6a5f4e3d2c1b"}

\* The ids main passes to view, over all requests.
Routed(view) ==
    {main(params).id : params \in {q \in QueryParams : main(q).view = view}}

DashboardRequests == Routed("render_teacher_dashboard")

StudentVotingIds == Routed("render_student_voting")

ResultsDisplayIds == Routed("render_results_display")

GroupVotingIds == Routed("render_group_voting")

GroupResultsIds == Routed("render_group_results")

\* The outcome of a run that leaves the store alone.
Same(result) ==
    [polls |-> polls, groups |-> groups, voters |-> voters, result |-> result]

\* The run op with arguments args has outcome r and leaves the sessions'
\* flags as auth.  The session of the run, where the run depends on it, is
\* the first of args.
Run(op, args, r, auth) ==
    /\ polls' = r.polls
    /\ groups' = r.groups
    /\ voters' = r.voters
    /\ last' = [op |-> op, args |-> args, result |-> r.result]
    /\ authenticated' = auth
    /\ UNCHANGED <<threads, calc>>

\* A run that can add to the store, which holds at most limit entries.
AppStep(op, args, r, auth, limit) ==
    /\ AppSize(r.polls, r.voters) <= limit
    /\ Run(op, args, r, auth)

\* main reaches render_teacher_dashboard for the session.
Dashboard(session_id) ==
    /\ DashboardRequests # {}
    /\ check_password(authenticated[session_id], None).returns

\* A request without poll and group and without a click: the login page or
\* the dashboard.
OpenDashboard ==
    \E session_id \in SessionIds :
        /\ DashboardRequests # {}
        /\ Run("main", <<session_id>>,
                   Same(check_password(authenticated[session_id], None)),
                   authenticated)
        /\ UNCHANGED accepted

\* The Login button of the login page, with a text in the password field.
Login ==
    \E login \in LoginInputs :
        LET session_id == login[1]
            password == login[2]
            outcome == check_password(authenticated[session_id],
                                      [password |-> password])
        IN  /\ DashboardRequests # {}
            /\ ~authenticated[session_id]
            /\ Run("check_password", <<session_id, password>>,
                       Same(outcome),
                       [authenticated EXCEPT ![session_id] = outcome.authenticated])
            /\ UNCHANGED accepted

\* The Create Poll button of the dashboard.
SubmitCreatePoll ==
    \E session_id \in SessionIds, uuid \in Uuid4Strings, input \in FormInputs :
        /\ Dashboard(session_id)
        /\ AppStep("create_poll_form", <<session_id>>,
                   create_poll_form(polls, groups, voters, uuid, input[1], input[2]),
                   authenticated, MaxEntries)
        /\ UNCHANGED accepted

\* The Open Poll / Close Poll button of a listed poll.
ClickTogglePoll ==
    \E session_id \in SessionIds, poll_id \in DOMAIN polls :
        /\ Dashboard(session_id)
        /\ AppStep("toggle_poll", <<session_id, poll_id>>,
                   toggle_poll(polls, groups, voters, poll_id), authenticated,
                   MaxEntries)
        /\ UNCHANGED accepted

\* The Create Poll Group button; the form is there with two polls or more.
SubmitCreateGroup ==
    \E session_id \in SessionIds, uuid \in GroupUuid4Strings,
       group_name \in GroupNameInputs, poll_options \in PollOptions(polls) :
        \E selected_polls \in Selections(DOMAIN poll_options) :
            /\ Dashboard(session_id)
            /\ Cardinality(DOMAIN polls) >= 2
            /\ AppStep("create_group_form", <<session_id>>,
                       create_group_form(polls, groups, voters, uuid, group_name,
                                         poll_options, selected_polls),
                       authenticated, MaxEntries)
            /\ UNCHANGED accepted

\* The Open Group / Close Group button of a listed group.
ClickToggleGroup ==
    \E session_id \in SessionIds, group_id \in DOMAIN groups :
        /\ Dashboard(session_id)
        /\ AppStep("toggle_poll_group", <<session_id, group_id>>,
                   toggle_poll_group(polls, groups, voters, group_id), authenticated,
                   MaxEntries)
        /\ UNCHANGED accepted

\* The Clear All Polls button.
ClickClearAll ==
    \E session_id \in SessionIds :
        /\ Dashboard(session_id)
        /\ AppStep("clear_all_polls", <<session_id>>,
                   clear_all_polls(polls, groups, voters), authenticated, MaxEntries)
        /\ accepted' = [pair \in Pairs |-> 0]

\* A request for a poll's voting page, or its timed reload.
OpenStudentVoting ==
    \E session_id \in SessionIds, poll_id \in StudentVotingIds :
        /\ Run("render_student_voting", <<session_id, poll_id>>,
                   Same(render_student_voting(polls, voters, poll_id, session_id)),
                   authenticated)
        /\ UNCHANGED accepted

\* A vote button of a poll's voting page, the store holding up to limit
\* entries.
ClickVoteWithin(limit) ==
    \E session_id \in SessionIds, poll_id \in StudentVotingIds :
        \E option \in render_student_voting(polls, voters, poll_id, session_id).buttons :
            LET r == cast_vote(polls, groups, voters, poll_id, option, session_id)
            IN  /\ AppStep("vote", <<session_id, poll_id, option>>, r,
                           authenticated, limit)
                /\ accepted' = IF r.result = Bool(TRUE)
                               THEN [accepted EXCEPT ![<<session_id, poll_id>>] = @ + 1]
                               ELSE accepted

ClickVote == ClickVoteWithin(MaxEntries)

OpenResultsDisplay ==
    \E poll_id \in ResultsDisplayIds :
        /\ Run("render_results_display", <<poll_id>>,
                   Same(render_results_display(polls, poll_id)), authenticated)
        /\ UNCHANGED accepted

\* A request for a group's voting page, or its timed reload.
OpenGroupVoting ==
    \E session_id \in SessionIds, group_id \in GroupVotingIds :
        /\ Run("render_group_voting", <<session_id, group_id>>,
                   Same(render_group_voting(polls, groups, voters, group_id, session_id)),
                   authenticated)
        /\ UNCHANGED accepted

\* A vote button of the question a group's voting page shows, the store
\* holding up to limit entries.
ClickGroupVoteWithin(limit) ==
    \E session_id \in SessionIds, group_id \in GroupVotingIds :
        LET page == render_group_voting(polls, groups, voters, group_id, session_id)
        IN  \E option \in page.buttons :
                LET r == cast_vote(polls, groups, voters, page.poll_id, option,
                                   session_id)
                IN  /\ AppStep("group_vote",
                               <<session_id, group_id, page.poll_id, option>>, r,
                               authenticated, limit)
                    /\ accepted' =
                           IF r.result = Bool(TRUE)
                           THEN [accepted EXCEPT ![<<session_id, page.poll_id>>] = @ + 1]
                           ELSE accepted

ClickGroupVote == ClickGroupVoteWithin(MaxEntries)

OpenGroupResults ==
    \E group_id \in GroupResultsIds :
        /\ Run("render_group_results", <<group_id>>,
                   Same(render_group_results(groups, group_id)), authenticated)
        /\ UNCHANGED accepted

NextApp ==
    \/ OpenDashboard
    \/ Login
    \/ SubmitCreatePoll
    \/ ClickTogglePoll
    \/ SubmitCreateGroup
    \/ ClickToggleGroup
    \/ ClickClearAll
    \/ OpenStudentVoting
    \/ ClickVote
    \/ OpenResultsDisplay
    \/ OpenGroupVoting
    \/ ClickGroupVote
    \/ OpenGroupResults

SpecApp == Init /\ [][NextApp]_vars

-----------------------------------------------------------------------------
(* A group in use: the teacher has created two polls and a group of them   *)
(* and opened the group; the sessions vote through the group's link and    *)
(* through the polls' own links, in any order.                              *)

\* The store after the teacher's runs, the members selected in the order
\* selected_polls.
PreparedStore(selected_polls) ==
    LET first == create_poll_form(<<>>, <<>>, {},
                     "3f2a9c1e-5b7d-4e1a-9c3f-0a1b2c3d4e5f",
                     " Q1 ", <<"4", " 5 ", "", "", "", "">>)
        second == create_poll_form(first.polls, first.groups, first.voters,
                     "7b0d4e55-1c2d-4f3a-8e9b-6a5f4e3d2c1b",
                     "Q2", <<"", "4", " ", "", "", "6">>)
        poll_options == CHOOSE f \in PollOptions(second.polls) : TRUE
        grouped == create_group_form(second.polls, second.groups, second.voters,
                     "7b0d4e55-1c2d-4f3a-8e9b-6a5f4e3d2c1b",
                     " Exercise 1 ", poll_options, selected_polls)
    IN  toggle_poll_group(grouped.polls, grouped.groups, grouped.voters,
                          grouped.result.id)

\* Every voter key the store can hold next to its polls.
AllEntries == Cardinality(Ids) + Cardinality(Pairs)

InitGroup ==
    /\ \E selected_polls \in {<<"Q1", "Q2">>, <<"Q2", "Q1">>} :
         LET r == PreparedStore(selected_polls)
         IN  /\ polls = r.polls
             /\ groups = r.groups
             /\ voters = r.voters
    /\ last = [op |-> "init", args |-> <<>>, result |-> None]
    /\ accepted = [pair \in Pairs |-> 0]
    /\ authenticated \in {auth \in [SessionIds -> BOOLEAN] :
                             \A session_id \in SessionIds :
                                 auth[session_id] <=>
                                 <<session_id, TEACHER_PASSWORD>> \in LoginInputs}
    /\ threads = <<>>
    /\ calc = None

ClickAnyVote == ClickVoteWithin(AllEntries)

ClickAnyGroupVote == ClickGroupVoteWithin(AllEntries)

NextGroup ==
    \/ OpenStudentVoting
    \/ ClickAnyVote
    \/ OpenGroupVoting
    \/ ClickAnyGroupVote

SpecGroup == InitGroup /\ [][NextGroup]_vars

-----------------------------------------------------------------------------
(* Links: the URLs the dashboard shows and what a request for one of them  *)
(* is routed to.                                                            *)

\* Texts of the "App URL" field of the dashboard.
BaseUrls ==
    { "https://your-app.streamlit.app",
      "https://your-app.streamlit.app/",
      "https://your-app.streamlit.app//",
      "https://example.org/polling/",
      "http://localhost:8501",
      "",
      "/",
      "https://your-app.streamlit.app/?embed=true",
      "https://your-app.streamlit.app/?group=7b0d4e55",
      "https://your-app.streamlit.app/#polls" }

\* get_group_url that keeps the trailing slashes of the base URL.
get_group_url_KeepsSlash(group_id, base_url) ==
    base_url \o "/?group=" \o group_id

get_poll_url(poll_id, base_url) ==
    RStripChar(base_url, "/") \o "/?poll=" \o poll_id

get_results_url(poll_id, base_url) ==
    RStripChar(base_url, "/") \o "/?poll=" \o poll_id \o "&results=1"

get_group_url(group_id, base_url) ==
    RStripChar(base_url, "/") \o "/?group=" \o group_id

get_group_results_url(group_id, base_url) ==
    RStripChar(base_url, "/") \o "/?group=" \o group_id \o "&results=1"

LinkFunctions ==
    {"get_poll_url", "get_results_url", "get_group_url", "get_group_results_url"}

\* The link function fn applied to an id and a base URL.
Link(fn, id, base_url) ==
    CASE fn = "get_poll_url" -> get_poll_url(id, base_url)
      [] fn = "get_results_url" -> get_results_url(id, base_url)
      [] fn = "get_group_url" -> get_group_url(id, base_url)
      [] fn = "get_group_results_url" -> get_group_results_url(id, base_url)

\* The position of the first character c of s at or after position i; 0 if
\* there is none.
RECURSIVE Find(_, _, _)
Find(s, c, i) ==
    IF i > Len(s) THEN 0
    ELSE IF SubSeq(s, i, i) = c THEN i
    ELSE Find(s, c, i + 1)

\* The query string of a URL: what follows the first "?", without the
\* fragment that starts at the first "#".
QueryString(url) ==
    LET hash == Find(url, "#", 1)
        request == IF hash = 0 THEN url ELSE SubSeq(url, 1, hash - 1)
        mark == Find(request, "?", 1)
    IN  IF mark = 0 THEN "" ELSE SubSeq(request, mark + 1, Len(request))

\* The query parameters of a query string, read from the left: the fields
\* are separated by "&", a field is key=value or a key alone, and a later
\* value of a key replaces an earlier one.
RECURSIVE ParseQuery(_, _)
ParseQuery(query, params) ==
    LET amp == Find(query, "&", 1)
        field == IF amp = 0 THEN query ELSE SubSeq(query, 1, amp - 1)
        rest == IF amp = 0 THEN "" ELSE SubSeq(query, amp + 1, Len(query))
        eq == Find(field, "=", 1)
        key == IF eq = 0 THEN field ELSE SubSeq(field, 1, eq - 1)
        value == IF eq = 0 THEN "" ELSE SubSeq(field, eq + 1, Len(field))
        read == IF field = "" THEN params ELSE Put(params, key, value)
    IN  IF query = "" THEN params ELSE ParseQuery(rest, read)

\* st.query_params.to_dict() in a request for url.
to_dict(url) == ParseQuery(QueryString(url), <<>>)

InitLinks ==
    /\ IdleApp
    /\ calc \in {[fn |-> fn, id |-> id, base_url |-> base_url,
                  url |-> "", out |-> None] :
                    fn \in LinkFunctions, id \in Ids, base_url \in BaseUrls}

\* The dashboard shows the link.
ShowLink ==
    /\ calc.url = ""
    /\ calc' = [calc EXCEPT !.url = Link(calc.fn, calc.id, calc.base_url)]
    /\ UNCHANGED <<polls, groups, voters, last, accepted, authenticated, threads>>

\* A browser requests the link.
FollowLink ==
    /\ calc.url # ""
    /\ calc.out = None
    /\ calc' = [calc EXCEPT !.out = main(to_dict(calc.url))]
    /\ UNCHANGED <<polls, groups, voters, last, accepted, authenticated, threads>>

NextLinks ==
    \/ ShowLink
    \/ FollowLink

SpecLinks == InitLinks /\ [][NextLinks]_vars

-----------------------------------------------------------------------------
(* cast_vote without run-to-completion: threads call cast_vote at the same *)
(* time and the scheduler may switch between its statements.                *)

\* The threads that serve the sessions' runs.
ThreadIds == {"ScriptThread-1", "ScriptThread-2"}

\* (option, session_id) arguments of the concurrent calls; the poll is the
\* one in the store.  "C" is no option of it.
RaceArgs == {"A", "C"} \X SessionIds

\* A thread that is in no call.
Idle == [pc |-> "idle", poll_id |-> "", option |-> "", session_id |-> ""]

\* The test of cast_vote that never finds the key.
voter_key_in_store_Never(vs, voter_key) == FALSE

\* `voter_key in get_voter_store()`
voter_key_in_store(vs, voter_key) == voter_key \in vs

\* `poll and option in poll.votes`
poll_has_option(poll, option) == poll # None /\ option \in DOMAIN poll.votes

\* The store holds one open poll; no thread is in a call, and no two calls
\* have overlapped.
InitRace ==
    /\ LET r == create_poll(<<>>, <<>>, {}, "3f2a9c1e-5b7d-4e1a-9c3f-0a1b2c3d4e5f",
                            "Q1", <<"A", "B">>)
       IN  /\ polls = [r.polls EXCEPT ![r.result.id].is_open = TRUE]
           /\ groups = r.groups
           /\ voters = r.voters
    /\ last = [op |-> "init", args |-> <<>>, result |-> None]
    /\ accepted = [pair \in Pairs |-> 0]
    /\ authenticated = [session_id \in SessionIds |-> FALSE]
    /\ threads = [call |-> [t \in ThreadIds |-> Idle], overlapped |-> {}]
    /\ calc = None

\* The call of thread t returns result.
Return(t, result) ==
    /\ threads' = [threads EXCEPT !.call[t] = Idle]
    /\ last' = [op |-> "cast_vote",
                args |-> <<threads.call[t].poll_id, threads.call[t].option,
                           threads.call[t].session_id>>,
                result |-> Bool(result)]

\* Thread t enters cast_vote and computes voter_key.  The call overlaps the
\* calls for the same session and poll that other threads are in.
EnterCastVote(t) ==
    \E poll_id \in DOMAIN polls, args \in RaceArgs :
        LET pair == <<args[2], poll_id>>
            same == {u \in ThreadIds \ {t} :
                        /\ threads.call[u].pc # "idle"
                        /\ threads.call[u].session_id = args[2]
                        /\ threads.call[u].poll_id = poll_id}
        IN  /\ threads.call[t].pc = "idle"
            /\ threads' = [threads EXCEPT
                   !.call[t] = [pc |-> "check", poll_id |-> poll_id,
                                option |-> args[1], session_id |-> args[2]],
                   !.overlapped = IF same = {} THEN @ ELSE @ \cup {pair}]
            /\ UNCHANGED <<polls, groups, voters, last, accepted, authenticated, calc>>

\* if voter_key in get_voter_store(): return False
CheckVoterKey(t) ==
    LET call == threads.call[t]
    IN  /\ call.pc = "check"
        /\ IF voter_key_in_store(voters, VoterKey(call.session_id, call.poll_id))
           THEN Return(t, FALSE)
           ELSE /\ threads' = [threads EXCEPT !.call[t].pc = "lookup"]
                /\ UNCHANGED last
        /\ UNCHANGED <<polls, groups, voters, accepted, authenticated, calc>>

\* poll = get_poll(poll_id); if poll and option in poll.votes: ... return False
LookupPoll(t) ==
    LET call == threads.call[t]
    IN  /\ call.pc = "lookup"
        /\ IF poll_has_option(get_poll(polls, call.poll_id), call.option)
           THEN /\ threads' = [threads EXCEPT !.call[t].pc = "increment"]
                /\ UNCHANGED last
           ELSE Return(t, FALSE)
        /\ UNCHANGED <<polls, groups, voters, accepted, authenticated, calc>>

\* poll.votes[option] += 1
IncrementCount(t) ==
    LET call == threads.call[t]
    IN  /\ call.pc = "increment"
        /\ polls' = [polls EXCEPT ![call.poll_id].votes[call.option] = @ + 1]
        /\ threads' = [threads EXCEPT !.call[t].pc = "add"]
        /\ UNCHANGED <<groups, voters, last, accepted, authenticated, calc>>

\* get_voter_store().add(voter_key); return True
AddVoterKey(t) ==
    LET call == threads.call[t]
    IN  /\ call.pc = "add"
        /\ voters' = voters \cup {VoterKey(call.session_id, call.poll_id)}
        /\ Return(t, TRUE)
        /\ accepted' = [accepted EXCEPT ![<<call.session_id, call.poll_id>>] = @ + 1]
        /\ UNCHANGED <<polls, groups, authenticated, calc>>

Enter == \E t \in ThreadIds : EnterCastVote(t)

Check == \E t \in ThreadIds : CheckVoterKey(t)

Lookup == \E t \in ThreadIds : LookupPoll(t)

Increment == \E t \in ThreadIds : IncrementCount(t)

AddKey == \E t \in ThreadIds : AddVoterKey(t)

NextRace ==
    \/ Enter
    \/ Check
    \/ Lookup
    \/ Increment
    \/ AddKey

SpecRace == InitRace /\ [][NextRace]_vars

-----------------------------------------------------------------------------
(* The create_poll_form alone, over every way of filling its fields         *)

\* Texts of the question field and of an option field: empty, blank, filled,
\* filled with spaces around.
QuestionTexts == {"", " ", " Q1 "}

FieldTexts == {"", " ", "4", " 5 "}

InitForm ==
    /\ IdleApp
    /\ calc \in {[question |-> question, fields |-> fields, out |-> None] :
                    question \in QuestionTexts,
                    fields \in [1 .. Len(OptionLabels) -> FieldTexts]}

\* The form is submitted to an empty store.
SubmitForm ==
    /\ calc.out = None
    /\ \E uuid \in Uuid4Strings :
         calc' = [calc EXCEPT !.out =
                     create_poll_form(<<>>, <<>>, {}, uuid,
                                      calc.question, calc.fields)]
    /\ UNCHANGED <<polls, groups, voters, last, accepted, authenticated, threads>>

NextForm == SubmitForm

SpecForm == InitForm /\ [][NextForm]_vars

-----------------------------------------------------------------------------
(* The IRR page (src/pages/4_internal_rate_of_return.py): find_irr and the *)
(* display of its result.  A rate is a whole number of units of 1/RateUnit, *)
(* and an NPV is an exact fraction [num, den], so the comparisons with the  *)
(* tolerances are exact.                                                    *)

\* A rate r stands for r / RateUnit: 200 is 0.1 and 201 is 0.1005.
RateUnit == 2000

\* abs(npv) < 0.01, as 1 / NpvTolerance.
NpvTolerance == 100

\* abs(irr - existing_irr) < 0.001, as 1 / RootTolerance.
RootTolerance == 1000

\* for initial_guess in [0.1, 0.5, 1.0, -0.5]
InitialGuesses == <<200, 1000, 2000, -1000>>

\* Cash flows entered on the page: one with the root 0.1, one with the roots
\* 0.1 and 0.2, one with no root above -1.
CashFlowInputs ==
    { <<-10, 11>>, <<-50, 115, -66>>, <<-100, 30, 30>> }

\* Values fsolve can return besides the guess it started from: the roots of
\* the inputs, values 0.0005 and 0.001 above a root, -1 (where the NPV is not
\* finite) and a value far from every root.
Candidates == {200, 201, 202, 400, -2000, 600}

Abs(x) == IF x < 0 THEN -x ELSE x

RECURSIVE Pow(_, _)
Pow(b, e) == IF e = 0 THEN 1 ELSE b * Pow(b, e - 1)

\* The sum of cf / (1 + rate) ** t over the periods t, t+1, ..., on the
\* common denominator (1 + rate) ** (len - 1), in units of RateUnit.
RECURSIVE NpvSum(_, _, _)
NpvSum(rate, cash_flows, t) ==
    IF t > Len(cash_flows) - 1
    THEN 0
    ELSE cash_flows[t + 1] * Pow(RateUnit, t)
             * Pow(RateUnit + rate, Len(cash_flows) - 1 - t)
         + NpvSum(rate, cash_flows, t + 1)

\* calculate_npv as the fraction num / den; den is 0 at the rate -1, where
\* the float result is infinite or not a number.
calculate_npv(rate, cash_flows) ==
    [num |-> NpvSum(rate, cash_flows, 0),
     den |-> Pow(RateUnit + rate, Len(cash_flows) - 1)]

\* abs(npv) < 0.01; false for a result that is infinite or not a number.
within_tolerance(npv) ==
    /\ npv.den # 0
    /\ Abs(npv.num) < (Abs(npv.den) + NpvTolerance - 1) \div NpvTolerance

\* The loop over irr_solutions that finds no duplicate.
is_duplicate_Never(irr, irr_solutions) == FALSE

\* The loop over irr_solutions: abs(irr - existing_irr) < 0.001 for one of
\* them.
is_duplicate(irr, irr_solutions) ==
    \E i \in DOMAIN irr_solutions :
        Abs(irr - irr_solutions[i]) * RootTolerance < RateUnit

\* What fsolve does to one call: it raises, or returns a value.
Raised == [raised |-> TRUE]

FsolveOutcomes(initial_guess) ==
    {Raised} \cup {[irr |-> irr] : irr \in Candidates \cup {initial_guess}}

\* The loop body of find_irr that keeps a candidate whatever its NPV.
try_guess_NoTolerance(irr_solutions, outcome, cash_flows) ==
    IF outcome = Raised THEN irr_solutions
    ELSE IF ~is_duplicate(outcome.irr, irr_solutions)
    THEN Append(irr_solutions, outcome.irr)
    ELSE irr_solutions

\* The loop body of find_irr for one initial guess, given what fsolve did:
\* irr_solutions afterwards.
try_guess(irr_solutions, outcome, cash_flows) ==
    IF outcome = Raised THEN irr_solutions
    ELSE IF within_tolerance(calculate_npv(outcome.irr, cash_flows))
    THEN IF ~is_duplicate(outcome.irr, irr_solutions)
         THEN Append(irr_solutions, outcome.irr)
         ELSE irr_solutions
    ELSE irr_solutions

\* find_irr starts on the cash flows of the page.
InitIrr ==
    /\ IdleApp
    /\ calc \in {[cash_flows |-> cash_flows, tried |-> <<>>,
                  irr_solutions |-> <<>>, shown |-> ""] :
                    cash_flows \in CashFlowInputs}

\* One turn of the loop of find_irr.
TryGuess ==
    /\ Len(calc.tried) < Len(InitialGuesses)
    /\ \E outcome \in FsolveOutcomes(InitialGuesses[Len(calc.tried) + 1]) :
         calc' = [calc EXCEPT
                     !.tried = Append(@, outcome),
                     !.irr_solutions = try_guess(@, outcome, calc.cash_flows)]
    /\ UNCHANGED <<polls, groups, voters, last, accepted, authenticated, threads>>

\* find_irr has returned; the page shows the metrics or the warning.
ShowResults ==
    /\ Len(calc.tried) = Len(InitialGuesses)
    /\ calc.shown = ""
    /\ calc' = [calc EXCEPT !.shown = IF Len(calc.irr_solutions) > 0
                                      THEN "IRR" ELSE "No IRR found"]
    /\ UNCHANGED <<polls, groups, voters, last, accepted, authenticated, threads>>

NextIrr ==
    \/ TryGuess
    \/ ShowResults

SpecIrr == InitIrr /\ [][NextIrr]_vars

-----------------------------------------------------------------------------
(* The perpetuity page (src/pages/3_perpetuity_formula.py).  The page       *)
(* computes in float64.  A float is zero or an exact binary fraction        *)
(* m * 2^e whose significand m is a sequence of at most Precision bits,     *)
(* most significant first, with a one at both ends; the result of an        *)
(* operation is the exact result rounded to the nearest float, ties to the  *)
(* even significand.                                                        *)

\* Bits in the significand of a float64.
Precision == 53

\* The values typed into the three number inputs: dollars, percent, periods.
CashFlowValues == {0, 1, 100, 100000}
InterestRateValues == {100}
MaxPeriodsValues == {10, 50, 200}

Zero == [m |-> <<>>, e |-> 0]

Zeros(k) == [i \in 1..k |-> 0]

RECURSIVE Bits(_)
Bits(n) == IF n = 0 THEN <<>> ELSE Bits(n \div 2) \o <<n % 2>>

Min(a, b) == IF a < b THEN a ELSE b

Max(a, b) == IF a > b THEN a ELSE b

\* The float of the bits m with the last bit worth 2^e, m having at most
\* Precision bits between its first and its last one.
Normal(m, e) ==
    IF \A i \in DOMAIN m : m[i] = 0
    THEN Zero
    ELSE LET first == CHOOSE i \in DOMAIN m :
                          m[i] = 1 /\ \A j \in 1..(i - 1) : m[j] = 0
             final == CHOOSE i \in DOMAIN m :
                          m[i] = 1 /\ \A j \in (i + 1)..Len(m) : m[j] = 0
         IN  [m |-> SubSeq(m, first, final), e |-> e + Len(m) - final]

\* The float of a whole number below 2^31.
Float(n) == Normal(Bits(n), 0)

\* The bits of two floats over the same positions, the last worth 2^e.
Aligned(x, y) ==
    LET e  == Min(x.e, y.e)
        mx == x.m \o Zeros(x.e - e)
        my == y.m \o Zeros(y.e - e)
        L  == Max(Len(mx), Len(my))
    IN  [x |-> Zeros(L - Len(mx)) \o mx, y |-> Zeros(L - Len(my)) \o my,
         e |-> e]

\* The sum of two numbers of the same number of bits, one bit longer.  The
\* carry into position i comes from the nearest later position where both
\* bits are one, through positions where exactly one bit is one.
AddBits(a, b) ==
    LET L == Len(a)
        carry(i) ==
            IF \E j \in (i + 1)..L :
                   /\ a[j] = 1 /\ b[j] = 1
                   /\ \A k \in (i + 1)..(j - 1) : a[k] + b[k] = 1
            THEN 1 ELSE 0
    IN  <<carry(0)>> \o [i \in 1..L |-> (a[i] + b[i] + carry(i)) % 2]

\* Rounding of the exact value m * 2^e to a float: to the nearest, ties to
\* even.
Round(m, e) ==
    IF \A i \in DOMAIN m : m[i] = 0
    THEN Zero
    ELSE LET first == CHOOSE i \in DOMAIN m :
                          m[i] = 1 /\ \A j \in 1..(i - 1) : m[j] = 0
             bits  == SubSeq(m, first, Len(m))
             kept  == SubSeq(bits, 1, Precision)
             up    == /\ bits[Precision + 1] = 1
                      /\ \/ kept[Precision] = 1
                         \/ \E i \in (Precision + 2)..Len(bits) : bits[i] = 1
         IN  IF Len(bits) <= Precision
             THEN Normal(bits, e)
             ELSE Normal(IF up
                         THEN AddBits(kept, Zeros(Precision - 1) \o <<1>>)
                         ELSE kept,
                         e + Len(bits) - Precision)

\* x + y
fadd(x, y) ==
    LET a == Aligned(x, y) IN Round(AddBits(a.x, a.y), a.e)

\* x < y
fless(x, y) ==
    LET a == Aligned(x, y)
    IN  \E i \in DOMAIN a.x :
            /\ a.x[i] < a.y[i]
            /\ \A j \in 1..(i - 1) : a.x[j] = a.y[j]

\* x / y for the divisors of the page's inputs here: a power of two, by
\* which the quotient is exact, and x itself.
fdiv(x, y) ==
    CASE x = Zero    -> Zero
      [] y.m = <<1>> -> [m |-> x.m, e |-> x.e - y.e]
      [] x = y       -> Float(1)

\* x ** k for a power of two x, whose powers are exact.
fpow(x, k) ==
    CASE x.m = <<1>> -> [m |-> <<1>>, e |-> x.e * k]

\* r = interest_rate / 100
rate(interest_rate) == fdiv(Float(interest_rate), Float(100))

\* pv_perpetuity = cash_flow / r
pv_perpetuity(cash_flow, r) == fdiv(Float(cash_flow), r)

\* Element k of pv_each_cashflow = cash_flow / (1 + r)**period_numbers
pv_each_cashflow(cash_flow, r, k) ==
    fdiv(Float(cash_flow), fpow(fadd(Float(1), r), k))

\* np.cumsum: the next element of cumulative_pv after the ones computed.
cumsum(cumulative_pv, cash_flow, r) ==
    LET k == Len(cumulative_pv) + 1
    IN  IF k = 1
        THEN Append(cumulative_pv, pv_each_cashflow(cash_flow, r, 1))
        ELSE Append(cumulative_pv,
                    fadd(cumulative_pv[k - 1],
                         pv_each_cashflow(cash_flow, r, k)))

\* A run of the page starts: the inputs are read, r and the present value
\* are computed and shown.
InitPerpetuity ==
    /\ IdleApp
    /\ calc \in {[cash_flow |-> cash_flow, interest_rate |-> interest_rate,
                  max_periods |-> max_periods,
                  r |-> rate(interest_rate),
                  pv_perpetuity |-> pv_perpetuity(cash_flow,
                                                  rate(interest_rate)),
                  cumulative_pv |-> <<>>, plotted |-> FALSE] :
                    cash_flow \in CashFlowValues,
                    interest_rate \in InterestRateValues,
                    max_periods \in MaxPeriodsValues}

\* One element of the cumulative sum.
CumSum ==
    /\ Len(calc.cumulative_pv) < calc.max_periods
    /\ calc' = [calc EXCEPT
                   !.cumulative_pv = cumsum(@, calc.cash_flow, calc.r)]
    /\ UNCHANGED <<polls, groups, voters, last, accepted, authenticated, threads>>

\* The plot of cumulative_pv and of the line at pv_perpetuity is drawn.
Plot ==
    /\ Len(calc.cumulative_pv) = calc.max_periods
    /\ ~calc.plotted
    /\ calc' = [calc EXCEPT !.plotted = TRUE]
    /\ UNCHANGED <<polls, groups, voters, last, accepted, authenticated, threads>>

NextPerpetuity ==
    \/ CumSum
    \/ Plot

SpecPerpetuity == InitPerpetuity /\ [][NextPerpetuity]_vars

-----------------------------------------------------------------------------
(* Auto-refresh: each session's browser stays on the link it has opened.   *)
(* threads[session] is the session's script thread: the page its last run  *)
(* rendered, the vote counts on that page and whether the run ended in     *)
(* time.sleep(..); st.rerun(), after which the script runs again without   *)
(* any user action.                                                        *)

\* The links the sessions open: the voting and results pages of the first
\* poll and of the group of the prepared store.
StudentLink == [view |-> "render_student_voting", id |-> "3f2a9c1e"]

ResultsLink == [view |-> "render_results_display", id |-> "3f2a9c1e"]

GroupLink == [view |-> "render_group_voting", id |-> "7b0d4e55"]

GroupResultsLink == [view |-> "render_group_results", id |-> "7b0d4e55"]

RefreshLinks == {StudentLink, ResultsLink, GroupLink, GroupResultsLink}

\* main for a link: the page the view renders for the session.
render_view(ps, gs, vs, link, session_id) ==
    CASE link.view = "render_student_voting" ->
             render_student_voting(ps, vs, link.id, session_id)
      [] link.view = "render_results_display" ->
             render_results_display(ps, link.id)
      [] link.view = "render_group_voting" ->
             render_group_voting(ps, gs, vs, link.id, session_id)
      [] link.view = "render_group_results" ->
             render_group_results(gs, link.id)

\* The vote counts a rendered page shows, by poll id.
shown_votes(ps, gs, link, page) ==
    CASE page.shown \in {"Thank you for voting", "Results"} ->
             [poll_id \in {link.id} |-> ps[poll_id].votes]
      [] page.shown = "Group results" ->
             [poll_id \in Range(gs[link.id].poll_ids) \cap DOMAIN ps |->
                 ps[poll_id].votes]
      [] OTHER -> <<>>

\* No page ends in st.rerun().
ends_in_rerun_Never(page) == FALSE

\* The run that rendered the page ends in time.sleep(..); st.rerun().
ends_in_rerun(page) ==
    page.shown \in {"Poll is not yet open", "Thank you for voting", "Results",
                    "This poll is not yet open", "Group results",
                    "Vote recorded!", "You have already voted"}

\* The thread of a session after a run of the script for its link.
Rendered(link, page, ps, gs) ==
    [link |-> link, page |-> page, votes |-> shown_votes(ps, gs, link, page),
     rerun |-> ends_in_rerun(page)]

\* A run of the script without a click.
script_run(ps, gs, vs, link, session_id) ==
    Rendered(link, render_view(ps, gs, vs, link, session_id), ps, gs)

\* The teacher has created the two polls and the group and opened the group;
\* no session has opened a link.
InitRefresh ==
    /\ LET r == PreparedStore(<<"Q1", "Q2">>)
       IN  /\ polls = r.polls
           /\ groups = r.groups
           /\ voters = r.voters
    /\ last = [op |-> "init", args |-> <<>>, result |-> None]
    /\ accepted = [pair \in Pairs |-> 0]
    /\ authenticated = [session_id \in SessionIds |-> FALSE]
    /\ threads = [session_id \in SessionIds |-> None]
    /\ calc = None

\* A session opens a link.
OpenLink(session_id) ==
    /\ threads[session_id] = None
    /\ \E link \in RefreshLinks :
         threads' = [threads EXCEPT ![session_id] =
                        script_run(polls, groups, voters, link, session_id)]
    /\ UNCHANGED <<polls, groups, voters, last, accepted, authenticated, calc>>

\* st.rerun() after the sleep: the script runs again for the session.
Rerun(session_id) ==
    /\ threads[session_id] # None
    /\ threads[session_id].rerun
    /\ threads' = [threads EXCEPT ![session_id] =
                      script_run(polls, groups, voters, @.link, session_id)]
    /\ UNCHANGED <<polls, groups, voters, last, accepted, authenticated, calc>>

\* A click on a vote button of the page the session sees.  The script runs
\* again; the button counts as clicked where the run renders a button of the
\* same key.
ClickButton(session_id) ==
    /\ threads[session_id] # None
    /\ \E option \in threads[session_id].page.buttons :
         LET link == threads[session_id].link
             page == render_view(polls, groups, voters, link, session_id)
             r == cast_vote(polls, groups, voters, page.poll_id, option,
                            session_id)
         IN  IF option \in page.buttons
             THEN /\ polls' = r.polls
                  /\ voters' = r.voters
                  /\ accepted' =
                         IF r.result = Bool(TRUE)
                         THEN [accepted EXCEPT
                                  ![<<session_id, page.poll_id>>] = @ + 1]
                         ELSE accepted
                  /\ threads' = [threads EXCEPT ![session_id] =
                        Rendered(link,
                                 Page(IF r.result = Bool(TRUE)
                                      THEN "Vote recorded!"
                                      ELSE "You have already voted",
                                      page.poll_id, page.idx, {}),
                                 r.polls, groups)]
             ELSE /\ UNCHANGED <<polls, voters, accepted>>
                  /\ threads' = [threads EXCEPT ![session_id] =
                        Rendered(link, page, polls, groups)]
    /\ UNCHANGED <<groups, last, authenticated, calc>>

\* The teacher's Open Poll / Close Poll button of a poll.
TeacherTogglesPoll ==
    /\ \E poll_id \in DOMAIN polls :
         polls' = toggle_poll(polls, groups, voters, poll_id).polls
    /\ UNCHANGED <<groups, voters, last, accepted, authenticated, threads, calc>>

\* The teacher's Open Group / Close Group button of a group.
TeacherTogglesGroup ==
    /\ \E group_id \in DOMAIN groups :
         LET r == toggle_poll_group(polls, groups, voters, group_id)
         IN  /\ polls' = r.polls
             /\ groups' = r.groups
    /\ UNCHANGED <<voters, last, accepted, authenticated, threads, calc>>

\* The teacher's Clear All Polls & Groups button.
TeacherClearsAll ==
    /\ polls # <<>>
    /\ LET r == clear_all_polls(polls, groups, voters)
       IN  /\ polls' = r.polls
           /\ groups' = r.groups
           /\ voters' = r.voters
    /\ accepted' = [pair \in Pairs |-> 0]
    /\ UNCHANGED <<last, authenticated, threads, calc>>

NextRefresh ==
    \/ \E session_id \in SessionIds : OpenLink(session_id)
    \/ \E session_id \in SessionIds : Rerun(session_id)
    \/ \E session_id \in SessionIds : ClickButton(session_id)
    \/ TeacherTogglesPoll
    \/ TeacherTogglesGroup
    \/ TeacherClearsAll

\* A pending st.rerun() of a session is carried out once its sleep is over.
SpecRefresh ==
    /\ InitRefresh
    /\ [][NextRefresh]_vars
    /\ \A session_id \in SessionIds : WF_vars(Rerun(session_id))

-----------------------------------------------------------------------------
(* Properties *)

Valid(ps, poll_id, option) ==
    poll_id \in DOMAIN ps /\ option \in DOMAIN ps[poll_id].votes

\* C1: each (session, poll id) pair has had at most one accepted cast_vote:
\* a cast_vote for a pair with no accepted vote yet, an existing poll and a
\* valid option returns True; a cast_vote for a pair that has had an accepted
\* vote returns False, with any option, and leaves every vote count unchanged.
C1_OneVotePerPair ==
    \A session_id \in SessionIds, poll_id \in Ids :
        /\ accepted[<<session_id, poll_id>>] <= 1
        /\ \A option \in OptionArgs :
            LET r == cast_vote(polls, groups, voters, poll_id, option, session_id)
            IN  /\ (accepted[<<session_id, poll_id>>] = 0 /\ Valid(polls, poll_id, option))
                       => r.result = Bool(TRUE)
                /\ accepted[<<session_id, poll_id>>] >= 1
                       => (r.result = Bool(FALSE) /\ r.polls = polls /\ r.voters = voters)

\* A second cast_vote of a pair, with a valid option, has just been rejected.
C1_Witness ==
    /\ last.op = "cast_vote"
    /\ last.result = Bool(FALSE)
    /\ accepted[<<last.args[3], last.args[1]>>] = 1
    /\ Valid(polls, last.args[1], last.args[2])

\* C2: a cast_vote for a pair with no voter record, on a poll that does not
\* exist or with an option that is not a key of the poll's votes, returns
\* False and changes neither polls, groups nor voters; the same session's
\* next cast_vote on that poll with a valid option is accepted.
C2_InvalidVoteChangesNothing ==
    \A session_id \in SessionIds, poll_id \in Ids, option \in OptionArgs :
        (accepted[<<session_id, poll_id>>] = 0 /\ ~Valid(polls, poll_id, option)) =>
            LET r == cast_vote(polls, groups, voters, poll_id, option, session_id)
            IN  /\ r.result = Bool(FALSE)
                /\ r.polls = polls /\ r.groups = groups /\ r.voters = voters
                /\ ~has_voted(r.voters, poll_id, session_id)
                /\ \A retry \in OptionArgs :
                       Valid(r.polls, poll_id, retry) =>
                           cast_vote(r.polls, r.groups, r.voters,
                                     poll_id, retry, session_id).result = Bool(TRUE)

\* A cast_vote with an option the existing poll does not have has just been
\* rejected, and the session has no voter record for the poll.
C2_Witness ==
    /\ last.op = "cast_vote"
    /\ last.result = Bool(FALSE)
    /\ last.args[1] \in DOMAIN polls
    /\ ~Valid(polls, last.args[1], last.args[2])
    /\ accepted[<<last.args[3], last.args[1]>>] = 0
    /\ ~has_voted(voters, last.args[1], last.args[3])

\* C3: create_poll stores the new poll under an id that no poll of the map
\* had before the call.
C3_FreshPollId ==
    [][last'.op = "create_poll" => last'.result.id \notin DOMAIN polls]_vars

\* C4: the poll create_poll returns is the one stored under its id, has the
\* given question and the given options in the given order, a count of 0 for
\* every option, and is closed.
C4_CreatedPoll ==
    last.op = "create_poll" =>
        LET poll == last.result
        IN  /\ get_poll(polls, poll.id) = poll
            /\ poll.question = last.args[1]
            /\ poll.options = last.args[2]
            /\ \A i \in 1..Len(last.args[2]) : poll.votes[last.args[2][i]] = 0
            /\ poll.is_open = FALSE

\* create_poll has just returned a poll with three options.
C4_Witness ==
    /\ last.op = "create_poll"
    /\ Len(last.result.options) = 3
    /\ last.result.id \in DOMAIN polls

\* C5: in every state, for every poll of the store, the keys of votes are
\* exactly the labels of options and every count is a non-negative integer;
\* and no cast_vote, toggle_poll, toggle_poll_group or create_poll_group
\* step adds a key to, or removes one from, the votes of a poll.
C5_VoteKeysAreOptions ==
    /\ [](\A poll_id \in DOMAIN polls :
             /\ DOMAIN polls[poll_id].votes = Range(polls[poll_id].options)
             /\ \A option \in DOMAIN polls[poll_id].votes :
                    polls[poll_id].votes[option] \in Nat)
    /\ [][last'.op \in {"cast_vote", "toggle_poll", "toggle_poll_group",
                        "create_poll_group"} =>
              \A poll_id \in DOMAIN polls :
                  /\ poll_id \in DOMAIN polls'
                  /\ DOMAIN polls'[poll_id].votes = DOMAIN polls[poll_id].votes
                  /\ polls'[poll_id].options = polls[poll_id].options
         ]_vars

\* A cast_vote with an option that is not a key has just been made on a poll
\* that already holds a vote.
C5_Witness ==
    /\ last.op = "cast_vote"
    /\ last.args[1] \in DOMAIN polls
    /\ last.args[2] \notin Range(polls[last.args[1]].options)
    /\ \E option \in DOMAIN polls[last.args[1]].votes :
           polls[last.args[1]].votes[option] = 1

\* C6: in every step, for every poll id in the map before and after it, no
\* count decreases; exactly one count grows, by 1, when the step is an
\* accepted cast_vote on that poll, and none grows otherwise.
C6_CountsOnlyIncrease ==
    [][\A poll_id \in DOMAIN polls \cap DOMAIN polls' :
          LET before == polls[poll_id].votes
              after == polls'[poll_id].votes
              voted == /\ last'.op = "cast_vote"
                       /\ last'.result = Bool(TRUE)
                       /\ last'.args[1] = poll_id
          IN  /\ DOMAIN after = DOMAIN before
              /\ \A option \in DOMAIN before : after[option] >= before[option]
              /\ voted => \E option \in DOMAIN before :
                              /\ after[option] = before[option] + 1
                              /\ \A other \in DOMAIN before \ {option} :
                                     after[other] = before[other]
              /\ ~voted => after = before
      ]_vars

C8_NotFoundSignal ==
    [][(last'.op = "toggle_poll" /\ last'.args[1] \notin DOMAIN polls) =>
          /\ UNCHANGED <<polls, groups, voters>>
          /\ last'.result # Bool(FALSE)
      ]_vars

\* C8 as amended: toggle_poll with an id that is not in the map changes
\* nothing and returns False, the value it also returns when it closes an
\* open poll; toggle_poll_group on an existing group adds no poll for a
\* member id that is not in the map, and on an absent group changes nothing
\* and returns False.
C8_AbsentIdIsNoOp ==
    [][/\ (last'.op = "toggle_poll" /\ last'.args[1] \notin DOMAIN polls) =>
              /\ UNCHANGED <<polls, groups, voters>>
              /\ last'.result = Bool(FALSE)
       /\ (last'.op = "toggle_poll" /\ last'.args[1] \in DOMAIN polls) =>
              /\ last'.result = Bool(~polls[last'.args[1]].is_open)
              /\ polls[last'.args[1]].is_open => last'.result = Bool(FALSE)
       /\ last'.op = "toggle_poll_group" =>
              /\ DOMAIN polls' = DOMAIN polls
              /\ voters' = voters
              /\ last'.args[1] \notin DOMAIN groups =>
                     (UNCHANGED <<polls, groups, voters>> /\ last'.result = Bool(FALSE))
      ]_vars

\* toggle_poll has just been called with an id that is not in the map, while
\* another poll is, and has returned False.
C8_Witness ==
    /\ last.op = "toggle_poll"
    /\ last.args[1] \notin DOMAIN polls
    /\ DOMAIN polls # {}
    /\ last.result = Bool(FALSE)

\* C9: after clear_all_polls the poll map, the group map and the voter set
\* are empty: get_poll and get_poll_group return None for every id and
\* has_voted is false for every session and poll.
C9_ClearAllEmpties ==
    last.op = "clear_all_polls" =>
        /\ DOMAIN polls = {} /\ DOMAIN groups = {} /\ voters = {}
        /\ \A id \in Ids :
               /\ get_poll(polls, id) = None
               /\ get_poll_group(groups, id) = None
               /\ \A session_id \in SessionIds : ~has_voted(voters, id, session_id)

\* clear_all_polls has just run.
C9_Witness ==
    /\ last.op = "clear_all_polls"
    /\ DOMAIN polls = {}

\* C10 as claimed: every step that is not clear_all_polls keeps every poll
\* id, every group id and every voter key.
C10_OnlyFullResetRemoves ==
    [][last'.op # "clear_all_polls" =>
          /\ DOMAIN polls \subseteq DOMAIN polls'
          /\ DOMAIN groups \subseteq DOMAIN groups'
          /\ voters \subseteq voters'
      ]_vars

\* C10 as amended: every step that is neither clear_all_polls nor
\* clear_all_poll_groups keeps every poll id, every group id and every voter
\* key; clear_all_poll_groups keeps every poll id and every voter key.
C10_OnlyClearsRemove ==
    [][/\ last'.op \notin {"clear_all_polls", "clear_all_poll_groups"} =>
              /\ DOMAIN polls \subseteq DOMAIN polls'
              /\ DOMAIN groups \subseteq DOMAIN groups'
              /\ voters \subseteq voters'
       /\ last'.op = "clear_all_poll_groups" =>
              /\ DOMAIN polls \subseteq DOMAIN polls'
              /\ voters \subseteq voters'
      ]_vars

\* clear_all_poll_groups has just run on a store that holds a poll and a
\* voter key.
C10_Witness ==
    /\ last.op = "clear_all_poll_groups"
    /\ DOMAIN groups = {}
    /\ DOMAIN polls # {}
    /\ voters # {}

\* The view the claim gives for a set of present parameters.
ViewByPresence(keys) ==
    IF {"group", "results"} \subseteq keys THEN "render_group_results"
    ELSE IF "group" \in keys THEN "render_group_voting"
    ELSE IF {"poll", "results"} \subseteq keys THEN "render_results_display"
    ELSE IF "poll" \in keys THEN "render_student_voting"
    ELSE "render_teacher_dashboard"

\* C11: the view main chooses for a request depends only on which of poll,
\* group and results are present, whatever their values, the empty value
\* included: group and results give the group results, group alone the group
\* voting, poll and results the results display, poll alone the student
\* voting, neither poll nor group the teacher dashboard.
C11_ViewByPresence ==
    calc.out # None => calc.out.view = ViewByPresence(DOMAIN calc.params)

\* The positions (from 1) of the members of a group that the session has no
\* voter record for.
Unanswered(group, session_id) ==
    {i \in DOMAIN group.poll_ids :
        VoterKey(session_id, group.poll_ids[i]) \notin voters}

\* C12: on an open group the page of render_group_voting offers the ballot
\* of the member poll at the smallest index of the group's poll_ids that the
\* session has no voter record for, whatever votes are recorded and in
\* whatever order; with records for exactly the first k members that is
\* index k, and with a record for every member it is the completion view,
\* which offers no ballot.  The page a session was last shown is that page.
C12_FirstUnanswered ==
    /\ \A group_id \in DOMAIN groups, session_id \in SessionIds :
         LET group == groups[group_id]
             open == Unanswered(group, session_id)
             first == CHOOSE i \in open : \A j \in open : i <= j
             page == render_group_voting(polls, groups, voters, group_id,
                                         session_id)
         IN  group.is_open =>
               /\ open = {} =>
                    /\ page.shown = "You have completed all questions"
                    /\ page.buttons = {}
               /\ open # {} =>
                    /\ page.shown = "Question"
                    /\ page.idx = [index |-> first - 1]
                    /\ page.poll_id = group.poll_ids[first]
                    /\ page.buttons = Range(polls[page.poll_id].options)
               /\ \A k \in 0 .. Len(group.poll_ids) - 1 :
                    open = (k + 1) .. Len(group.poll_ids)
                    => page.idx = [index |-> k]
               /\ (/\ last.op = "render_group_voting"
                   /\ last.args = <<session_id, group_id>>)
                  => last.result = page

\* A session with a record for the first of two members only has been shown
\* the second.
C12_Witness ==
    /\ last.op = "render_group_voting"
    /\ last.result.shown = "Question"
    /\ last.result.idx = [index |-> 1]
    /\ \E group_id \in DOMAIN groups :
         /\ last.args[2] = group_id
         /\ Unanswered(groups[group_id], last.args[1]) = {2}

\* The store: the poll map with its vote counts, the group map, the voter set.
store == <<polls, groups, voters>>

\* C13: rendering the student voting or the results display with a poll id
\* that is not in the poll map, or the group voting or the group results with
\* a group id that is not in the group map, shows the not-found message and
\* leaves the poll map, the vote counts, the group map and the voter set
\* unchanged; the results display and the group results never change the
\* store, whatever the id.
C13_NotFoundChangesNothing ==
    [][/\ (/\ last'.op = "render_student_voting"
           /\ last'.args[2] \notin DOMAIN polls)
          => last'.result.shown = "Poll not found" /\ UNCHANGED store
       /\ (/\ last'.op = "render_results_display"
           /\ last'.args[1] \notin DOMAIN polls)
          => last'.result.shown = "Poll not found" /\ UNCHANGED store
       /\ (/\ last'.op = "render_group_voting"
           /\ last'.args[2] \notin DOMAIN groups)
          => last'.result.shown = "Poll group not found" /\ UNCHANGED store
       /\ (/\ last'.op = "render_group_results"
           /\ last'.args[1] \notin DOMAIN groups)
          => last'.result.shown = "Poll group not found" /\ UNCHANGED store
       /\ last'.op \in {"render_results_display", "render_group_results"}
          => UNCHANGED store
      ]_vars

\* A results display was asked for a poll id that is not in the store, while
\* the store holds another poll with a vote.
C13_Witness ==
    /\ last.op = "render_results_display"
    /\ last.args[1] \notin DOMAIN polls
    /\ last.result.shown = "Poll not found"
    /\ voters # {}

\* The session of a run that is not a results page.
SessionOf(call) == call.args[1]

DashboardOps ==
    {"create_poll_form", "toggle_poll", "create_group_form",
     "toggle_poll_group", "clear_all_polls"}

\* C14: the dashboard is rendered for a session only when the session's
\* authenticated flag is set; the flag is set only by a login whose input is
\* the configured password, and is never cleared; the dashboard's operations
\* are performed only by authenticated sessions, and a step of an
\* unauthenticated session changes the store only as a cast_vote does.
C14_DashboardBehindPassword ==
    [][/\ (last'.op = "main" /\ last'.result.returns)
          => authenticated[SessionOf(last')]
       /\ \A session_id \in SessionIds :
            /\ authenticated[session_id] => authenticated'[session_id]
            /\ (~authenticated[session_id] /\ authenticated'[session_id])
               => /\ last'.op = "check_password"
                  /\ last'.args = <<session_id, TEACHER_PASSWORD>>
       /\ last'.op \in DashboardOps => authenticated[SessionOf(last')]
       /\ (store' # store /\ ~authenticated[SessionOf(last')])
          => /\ last'.op \in {"vote", "group_vote"}
             /\ \E poll_id \in DOMAIN polls :
                  \E option \in DOMAIN polls[poll_id].votes :
                      LET r == cast_vote(polls, groups, voters, poll_id, option,
                                         SessionOf(last'))
                      IN  store' = <<r.polls, r.groups, r.voters>>
      ]_vars

\* One session is authenticated and has a poll in the store; another, not
\* authenticated, has just voted on it.
C14_Witness ==
    /\ last.op = "vote"
    /\ last.result = Bool(TRUE)
    /\ ~authenticated[SessionOf(last)]
    /\ \E session_id \in SessionIds : authenticated[session_id]

\* C15: a login with a wrong password leaves the session unauthenticated and
\* the store and every session's flag unchanged, and there is no lockout: a
\* login with the configured password sets the flag, whatever was attempted
\* before, also directly after a wrong attempt of the same session.
C15_WrongPassword ==
    [][/\ (last'.op = "check_password" /\ last'.args[2] # TEACHER_PASSWORD)
          => /\ ~authenticated'[SessionOf(last')]
             /\ UNCHANGED <<authenticated, store>>
             /\ last'.result.message = "Incorrect password"
       /\ (last'.op = "check_password" /\ last'.args[2] = TEACHER_PASSWORD)
          => authenticated'[SessionOf(last')]
       /\ (/\ last.op = "check_password"
           /\ last.result.message = "Incorrect password")
          => /\ ~authenticated[SessionOf(last)]
             /\ check_password(authenticated[SessionOf(last)],
                               [password |-> TEACHER_PASSWORD]).authenticated
      ]_vars

\* The teacher's session has mistyped the password: it is not authenticated,
\* and the login with the password is open to it.
C15_Witness ==
    /\ last.op = "check_password"
    /\ last.result.message = "Incorrect password"
    /\ <<SessionOf(last), TEACHER_PASSWORD>> \in LoginInputs
    /\ ~authenticated[SessionOf(last)]
    /\ ENABLED Login

\* The view a link of the function fn is meant for.
ViewOfLink(fn) ==
    CASE fn = "get_poll_url" -> "render_student_voting"
      [] fn = "get_results_url" -> "render_results_display"
      [] fn = "get_group_url" -> "render_group_voting"
      [] fn = "get_group_results_url" -> "render_group_results"

\* The form the claim gives the link of fn for id on a base without its
\* trailing slashes.
FormOfLink(fn, id, base) ==
    base \o "/?"
         \o (IF fn \in {"get_poll_url", "get_results_url"} THEN "poll" ELSE "group")
         \o "=" \o id
         \o (IF fn \in {"get_results_url", "get_group_results_url"}
             THEN "&results=1" ELSE "")

\* The link is {base}/?poll={id} and its analogues, base being the base URL
\* with its trailing slashes removed.
HasLinkForm ==
    \E n \in 0 .. Len(calc.base_url) :
        LET base == SubSeq(calc.base_url, 1, n)
            tail == SubSeq(calc.base_url, n + 1, Len(calc.base_url))
        IN  /\ calc.url = FormOfLink(calc.fn, calc.id, base)
            /\ n > 0 => SubSeq(base, n, n) # "/"
            /\ \A i \in 1 .. Len(tail) : SubSeq(tail, i, i) = "/"

\* C16 as stated: for every generated id and every base URL the link has the
\* form {base}/?poll={id} and a request for it is routed to the view of the
\* link with that id.
C16_LinksRoundTrip ==
    /\ calc.url # "" => HasLinkForm
    /\ calc.out # None =>
         calc.out = [view |-> ViewOfLink(calc.fn), id |-> calc.id]

\* The base URL has neither a query string nor a fragment.
PlainBase(base_url) ==
    Find(base_url, "?", 1) = 0 /\ Find(base_url, "#", 1) = 0

\* C16 amended: for every generated id and every base URL the link has the
\* form {base}/?poll={id} and its analogues; for every base URL without "?"
\* and "#" a request for the link is routed to the view of the link with
\* that id.
C16_PlainLinksRoundTrip ==
    /\ calc.url # "" => HasLinkForm
    /\ (calc.out # None /\ PlainBase(calc.base_url)) =>
         calc.out = [view |-> ViewOfLink(calc.fn), id |-> calc.id]

\* The group results link on a base URL with trailing slashes has been
\* followed to the group results.
C16_Witness ==
    /\ calc.fn = "get_group_results_url"
    /\ calc.base_url = "https://your-app.streamlit.app//"
    /\ calc.url = "https://your-app.streamlit.app/?group=" \o calc.id \o "&results=1"
    /\ calc.out = [view |-> "render_group_results", id |-> calc.id]

\* C17: with cast_vote running to completion, that is when no two calls for
\* the same session and poll overlap, at most one vote of the session on the
\* poll is accepted, under every interleaving of the threads; a pair with
\* two accepted votes has had two calls that overlapped.
C17_OneVoteUnlessInterleaved ==
    \A pair \in Pairs : accepted[pair] <= 1 \/ pair \in threads.overlapped

\* Two calls for the same session and poll, their statements interleaved,
\* have both been accepted: two counted votes, one voter key.
C17_Witness ==
    \E pair \in Pairs :
        /\ accepted[pair] = 2
        /\ last.result = Bool(TRUE)
        /\ VoterKey(pair[1], pair[2]) \in voters
        /\ polls[pair[2]].votes["A"] >= 2

\* The option fields that are not blank.
Filled(fields) == {i \in DOMAIN fields : strip(fields[i]) # ""}

\* C18: every poll the create_poll_form creates has between 2 and 6 option
\* labels, no two of them equal, one for each field that is not blank, for
\* every combination of filled and blank fields A to F; a blank question or
\* fewer than two fields that are not blank create no poll.
C18_FormOptions ==
    calc.out # None =>
      LET created == DOMAIN calc.out.polls
          filled == Filled(calc.fields)
      IN  /\ (strip(calc.question) = "" \/ Cardinality(filled) < 2)
             <=> created = {}
          /\ created = {} <=> "error" \in DOMAIN calc.out.result
          /\ \A poll_id \in created :
               LET options == calc.out.polls[poll_id].options
               IN  /\ Len(options) \in 2 .. 6
                   /\ Len(options) = Cardinality(filled)
                   /\ \A i, j \in DOMAIN options :
                        options[i] = options[j] => i = j
                   /\ DOMAIN calc.out.polls[poll_id].votes = Range(options)
                   /\ calc.out.polls[poll_id].question = strip(calc.question)

\* The form with the same text in all six fields has created a poll with
\* six options.
C18_Witness ==
    /\ calc.out # None
    /\ \A i \in DOMAIN calc.fields : calc.fields[i] = "4"
    /\ \E poll_id \in DOMAIN calc.out.polls :
         Len(calc.out.polls[poll_id].options) = 6

\* C19: every group in the store of the app has at least two member poll
\* ids, no two of them equal, and each member id is the id of a poll in the
\* poll map, at the creation of the group and in every state after it.
C19_GroupMembersExist ==
    \A group_id \in DOMAIN groups :
        LET poll_ids == groups[group_id].poll_ids
        IN  /\ Len(poll_ids) >= 2
            /\ \A i, j \in DOMAIN poll_ids : poll_ids[i] = poll_ids[j] => i = j
            /\ \A i \in DOMAIN poll_ids : poll_ids[i] \in DOMAIN polls

\* The dashboard has just created a group.
C19_Witness ==
    /\ last.op = "create_group_form"
    /\ last.result \in {groups[group_id] : group_id \in DOMAIN groups}

\* The outcomes of fsolve so far that returned a value whose NPV is within
\* the tolerance.
Passing ==
    {k \in DOMAIN calc.tried :
        /\ calc.tried[k] # Raised
        /\ LET npv == calculate_npv(calc.tried[k].irr, calc.cash_flows)
           IN  /\ npv.den # 0
               /\ Abs(npv.num) <= (Abs(npv.den) - 1) \div NpvTolerance}

\* C20: every entry of the result of find_irr is the value fsolve returned
\* for one of the four initial guesses, with |NPV| < 0.01 at it; a guess
\* whose fsolve raises or whose value fails the tolerance leaves the result
\* as it was; the result has at most 4 entries, and when no value passes it
\* is empty and the page shows 'No IRR found'.
C20_OnlyWithinTolerance ==
    /\ [](/\ \A i \in DOMAIN calc.irr_solutions :
               \E k \in Passing : calc.tried[k].irr = calc.irr_solutions[i]
          /\ Len(calc.irr_solutions) <= Cardinality(Passing)
          /\ Len(calc.tried) <= 4
          /\ Len(calc.irr_solutions) <= 4
          /\ Passing = {} => calc.irr_solutions = <<>>
          /\ calc.shown = "No IRR found" <=>
                 (calc.shown # "" /\ calc.irr_solutions = <<>>))
    /\ [][(/\ Len(calc'.tried) > Len(calc.tried)
           /\ Len(calc'.tried) \notin {k \in DOMAIN calc'.tried :
                  /\ calc'.tried[k] # Raised
                  /\ within_tolerance(calculate_npv(calc'.tried[k].irr,
                                                    calc'.cash_flows))})
          => calc'.irr_solutions = calc.irr_solutions]_vars

\* Of the four guesses one raised, one gave a root, one gave a value that
\* fails the tolerance and one gave -1, and the result is the one root.
C20_Witness ==
    /\ calc.shown = "IRR"
    /\ calc.cash_flows = <<-50, 115, -66>>
    /\ calc.tried = <<Raised, [irr |-> 400], [irr |-> 600], [irr |-> -2000]>>
    /\ calc.irr_solutions = <<400>>

\* The turn of the loop that first gave the value of entry i of the result.
FirstFound(i) ==
    CHOOSE k \in Passing :
        /\ calc.tried[k].irr = calc.irr_solutions[i]
        /\ \A j \in Passing :
             calc.tried[j].irr = calc.irr_solutions[i] => k <= j

\* Two rates are less than 0.001 apart.
Near(a, b) == Abs(a - b) * RootTolerance < RateUnit

\* C21: any two entries of the result of find_irr are at least 0.001 apart;
\* a value within the tolerance that is less than 0.001 from an entry kept
\* before it is dropped, every other one is kept; an entry once kept stays,
\* at its place; and the entries are in the order of the initial guesses
\* that first gave them.
C21_RootsApart ==
    /\ [](/\ \A i, j \in DOMAIN calc.irr_solutions :
               i # j => ~Near(calc.irr_solutions[i], calc.irr_solutions[j])
          /\ \A i, j \in DOMAIN calc.irr_solutions :
               i < j => FirstFound(i) < FirstFound(j)
          /\ \A k \in Passing :
               \E i \in DOMAIN calc.irr_solutions :
                   /\ FirstFound(i) <= k
                   /\ \/ calc.irr_solutions[i] = calc.tried[k].irr
                      \/ Near(calc.irr_solutions[i], calc.tried[k].irr))
    /\ [][/\ Len(calc'.irr_solutions) >= Len(calc.irr_solutions)
          /\ SubSeq(calc'.irr_solutions, 1, Len(calc.irr_solutions))
                 = calc.irr_solutions]_vars

\* The guesses gave 0.1, 0.1005, 0.101 and 0.2, all within the tolerance:
\* 0.1005 was dropped, 0.101, which is 0.001 from 0.1, was kept.
C21_Witness ==
    /\ calc.shown = "IRR"
    /\ calc.cash_flows = <<-50, 115, -66>>
    /\ calc.tried = <<[irr |-> 200], [irr |-> 201], [irr |-> 202], [irr |-> 400]>>
    /\ calc.irr_solutions = <<200, 202, 400>>

\* C22: on the perpetuity page, for every cash flow C >= 0 and rate r > 0 of
\* the inputs, the present value is C / r, and the cumulative present value
\* of the first n payments is strictly increasing in n and at most C / r for
\* every n up to the number of periods displayed.
C22_CumulativePV ==
    /\ calc.pv_perpetuity = fdiv(Float(calc.cash_flow), calc.r)
    /\ \A n \in DOMAIN calc.cumulative_pv :
          /\ n > 1 => fless(calc.cumulative_pv[n - 1], calc.cumulative_pv[n])
          /\ ~fless(calc.pv_perpetuity, calc.cumulative_pv[n])

\* The poll of a vote made through a student-facing view.
VotedPoll(call) == IF call.op = "vote" THEN call.args[2] ELSE call.args[3]

\* C23: through the student-facing views a vote is counted only while the
\* voted poll's own is_open flag is true: whatever the teacher toggles between
\* the runs, each cast_vote that render_student_voting or render_group_voting
\* makes and that is accepted is on a poll whose is_open is true at that
\* moment.
C23_VotesOnlyWhileOpen ==
    [][/\ last'.op \in {"vote", "group_vote"}
       /\ last'.result = Bool(TRUE)
       => polls[VotedPoll(last')].is_open]_vars

\* sum(poll.votes.values())
RECURSIVE TotalVotes(_)
TotalVotes(votes) ==
    IF DOMAIN votes = {}
    THEN 0
    ELSE LET option == CHOOSE opt \in DOMAIN votes : TRUE
         IN  votes[option]
             + TotalVotes([opt \in DOMAIN votes \ {option} |-> votes[opt]])

\* The voter keys of the voter set that are recorded for the poll id.
VoterKeysOf(poll_id) ==
    {key \in voters : \E session_id \in SessionIds :
                         key = VoterKey(session_id, poll_id)}

\* C24: in every reachable state, under any interleaving of the store
\* operations of any number of sessions, the vote counts of every poll of the
\* poll map add up to the number of voter keys recorded for the poll's id.
C24_CountsMatchVoterKeys ==
    \A poll_id \in DOMAIN polls :
        TotalVotes(polls[poll_id].votes) = Cardinality(VoterKeysOf(poll_id))

\* The poll is in the poll map and open.
PollOpen(poll_id) == poll_id \in DOMAIN polls /\ polls[poll_id].is_open

\* The group is in the group map and open.
GroupOpen(group_id) == group_id \in DOMAIN groups /\ groups[group_id].is_open

\* The session is on the link and its page is of one of the kinds.
Sees(session_id, link, kinds) ==
    /\ threads[session_id] # None
    /\ threads[session_id].link = link
    /\ threads[session_id].page.shown \in kinds

\* The votes counted for the poll.
Total(poll_id) ==
    IF poll_id \in DOMAIN polls THEN TotalVotes(polls[poll_id].votes) ELSE 0

\* The votes for the poll on the page of the session, -1 where the page
\* shows no counts of the poll.
ShownTotal(session_id, poll_id) ==
    IF /\ threads[session_id] # None
       /\ poll_id \in DOMAIN threads[session_id].votes
    THEN TotalVotes(threads[session_id].votes[poll_id])
    ELSE -1

\* The kinds of page a run of the script can end with.
PageKinds ==
    {"Poll not found", "Poll is not yet open", "Thank you for voting", "Vote",
     "Results", "Poll group not found", "This poll is not yet open",
     "You have completed all questions", "Question", "Group results",
     "Vote recorded!", "You have already voted"}

\* Every run of the script has ended with a page.
RendersTerminate ==
    \A session_id \in SessionIds :
        \/ threads[session_id] = None
        \/ threads[session_id].page.shown \in PageKinds

\* C25: auto-refresh makes store changes eventually visible.  A session on
\* the voting page of a closed poll (group) is re-rendered without any user
\* action, so if the teacher opens the poll (group) and it stays open, the
\* session is eventually shown the ballot; a session on the post-vote results,
\* the results display or the group results eventually shows every vote
\* counted so far; each render terminates.
C25_RefreshShowsChanges ==
    /\ []RendersTerminate
    /\ \A session_id \in SessionIds :
          <>[]PollOpen(StudentLink.id) =>
              (Sees(session_id, StudentLink, {"Poll is not yet open"})
                   ~> Sees(session_id, StudentLink, {"Vote"}))
    /\ \A session_id \in SessionIds :
          <>[]GroupOpen(GroupLink.id) =>
              (Sees(session_id, GroupLink, {"This poll is not yet open"})
                   ~> Sees(session_id, GroupLink, {"Question"}))
    /\ \A session_id \in SessionIds : \A n \in 1..Cardinality(SessionIds) :
          (/\ Sees(session_id, StudentLink, {"Thank you for voting"})
           /\ Total(StudentLink.id) >= n)
              ~> (ShownTotal(session_id, StudentLink.id) >= n)
    /\ \A session_id \in SessionIds : \A n \in 1..Cardinality(SessionIds) :
          (/\ Sees(session_id, ResultsLink, {"Results"})
           /\ Total(ResultsLink.id) >= n)
              ~> (ShownTotal(session_id, ResultsLink.id) >= n)
    /\ \A session_id \in SessionIds : \A n \in 1..Cardinality(SessionIds) :
          \A poll_id \in Ids :
              (/\ Sees(session_id, GroupResultsLink, {"Group results"})
               /\ Total(poll_id) >= n)
                  ~> (ShownTotal(session_id, poll_id) >= n)

\* C25 as it holds, for a poll (group) that is not cleared: a session that has
\* a counted vote on the poll is shown the post-vote results in place of the
\* ballot, a session that has answered every question of the group the
\* completion page, the post-vote results show the votes counted so far if the
\* poll stays open, and the results views show them unless the poll is
\* cleared.
C25_RefreshShowsPage ==
    /\ []RendersTerminate
    /\ \A session_id \in SessionIds :
          [](StudentLink.id \in DOMAIN polls) /\ <>[]PollOpen(StudentLink.id) =>
              (Sees(session_id, StudentLink, {"Poll is not yet open"})
                   ~> Sees(session_id, StudentLink,
                           {"Vote", "Thank you for voting"}))
    /\ \A session_id \in SessionIds :
          [](GroupLink.id \in DOMAIN groups) /\ <>[]GroupOpen(GroupLink.id) =>
              (Sees(session_id, GroupLink, {"This poll is not yet open"})
                   ~> Sees(session_id, GroupLink,
                           {"Question", "You have completed all questions"}))
    /\ \A session_id \in SessionIds : \A n \in 1..Cardinality(SessionIds) :
          [](StudentLink.id \in DOMAIN polls) /\ <>[]PollOpen(StudentLink.id) =>
              ((/\ Sees(session_id, StudentLink, {"Thank you for voting"})
                /\ Total(StudentLink.id) >= n)
                  ~> (ShownTotal(session_id, StudentLink.id) >= n))
    /\ \A session_id \in SessionIds : \A n \in 1..Cardinality(SessionIds) :
          (/\ Sees(session_id, ResultsLink, {"Results"})
           /\ Total(ResultsLink.id) >= n)
              ~> (\/ ShownTotal(session_id, ResultsLink.id) >= n
                  \/ ResultsLink.id \notin DOMAIN polls)
    /\ \A session_id \in SessionIds : \A n \in 1..Cardinality(SessionIds) :
          \A poll_id \in Ids :
              (/\ Sees(session_id, GroupResultsLink, {"Group results"})
               /\ Total(poll_id) >= n)
                  ~> (\/ ShownTotal(session_id, poll_id) >= n
                      \/ poll_id \notin DOMAIN polls)

\* A session is shown both votes on the poll in its post-vote results while
\* the other session is at the second question of the group.
C25_Witness ==
    \E session_id \in SessionIds : \E other \in SessionIds \ {session_id} :
        /\ Sees(session_id, StudentLink, {"Thank you for voting"})
        /\ ShownTotal(session_id, StudentLink.id) = Cardinality(SessionIds)
        /\ Sees(other, GroupLink, {"Question"})
        /\ threads[other].page.idx = [index |-> 1]

\* The index the loop of render_group_voting gives for the session and the
\* group in a store; the number of members where it gives None.
SequencerIndex(gs, vs, group_id, session_id) ==
    LET idx == current_poll_idx(gs[group_id].poll_ids, vs, session_id, 0)
    IN  IF idx = None THEN Len(gs[group_id].poll_ids) ELSE idx.index

\* The session has had an accepted vote on every member of the group.
AnsweredAll(session_id, group_id) ==
    \A poll_id \in Range(groups[group_id].poll_ids) :
        accepted[<<session_id, poll_id>>] >= 1

\* The index of the sequencer never decreases while the group is in the map.
IndexNeverDecreases ==
    \A session_id \in SessionIds :
        \A group_id \in DOMAIN groups \cap DOMAIN groups' :
            SequencerIndex(groups', voters', group_id, session_id)
                >= SequencerIndex(groups, voters, group_id, session_id)

\* No session sees a ballot for a poll on which it has a counted vote.
NoBallotAfterVote ==
    \A session_id \in SessionIds : \A link \in {StudentLink, GroupLink} :
        Sees(session_id, link, {"Vote", "Question"})
            => accepted[<<session_id, threads[session_id].page.poll_id>>] = 0

\* C26: as long as a group exists, a session's progress through it never
\* goes backwards: the index of the group sequencer for the session and the
\* group is non-decreasing over time, the session is never presented with a
\* ballot for a member poll on which it has a counted vote, and after it has
\* had one accepted vote on each member it is shown completion on every later
\* request.
C26_ProgressNeverGoesBack ==
    /\ [][IndexNeverDecreases]_vars
    /\ []NoBallotAfterVote
    /\ [](\A session_id \in SessionIds : \A group_id \in DOMAIN groups :
             AnsweredAll(session_id, group_id) =>
                 render_group_voting(polls, groups, voters, group_id,
                                     session_id).shown
                     = "You have completed all questions")

\* C26 as it holds: a request made while the group is closed is shown the
\* not-yet-open notice, whatever the session has answered.
C26_ProgressWhileOpen ==
    /\ [][IndexNeverDecreases]_vars
    /\ []NoBallotAfterVote
    /\ [](\A session_id \in SessionIds : \A group_id \in DOMAIN groups :
             AnsweredAll(session_id, group_id) =>
                 render_group_voting(polls, groups, voters, group_id,
                                     session_id).shown
                     = IF groups[group_id].is_open
                       THEN "You have completed all questions"
                       ELSE "This poll is not yet open")

\* A session that has answered every question of the group is shown the
\* not-yet-open notice of the closed group, another the completion page.
C26_Witness ==
    \E session_id \in SessionIds : \E other \in SessionIds \ {session_id} :
        /\ GroupLink.id \in DOMAIN groups
        /\ AnsweredAll(session_id, GroupLink.id)
        /\ Sees(session_id, GroupLink, {"This poll is not yet open"})
        /\ AnsweredAll(other, GroupLink.id)
        /\ Sees(other, GroupLink, {"You have completed all questions"})

====
